---------------------------- MODULE Spec2Model ----------------------------
(***************************************************************************)
(* A model of the nano template engine: the tokenizer, the expression      *)
(* parser, the template parser and the renderer.                           *)
(*                                                                         *)
(* Strings of the program are sequences of one-character strings, so that  *)
(* the regular expressions of the token rules, slice(), split() and the    *)
(* string conversions can be computed character by character.              *)
(***************************************************************************)
EXTENDS Integers, Sequences, FiniteSets, TLC

VARIABLES
    input_template,   \* the template source handed to parse() / render()
    input_data,       \* the data object handed to render()
    input_settings,   \* the settings object handed to render()
    files,            \* the file system Deno.readTextFile reads: <<path, text>> pairs
    pc,               \* "start", "parsed", "parse_failed", "rendered", "render_failed"
    parsed,           \* the NodeBlockList parse() returned (or Undefined)
    output,           \* the string render() resolved to
    error,            \* the error parse() / render() threw (or NoError)
    trace,            \* what the renderer did, in order: file reads, loop iterations, imports, calls
    tokenizer,        \* a Tokenizer object on its own: its line, cursor, input and next_token
    returned,         \* the last call made on that tokenizer, with what it returned or threw
    parse_token_at    \* while parse() runs: what parse_token() gives in each state of its tokenizer

vars ==
    <<input_template, input_data, input_settings, files, pc, parsed, output, error, trace,
      tokenizer, returned, parse_token_at>>

---------------------------------------------------------------------------
(* Bounds of the model *)

\* operators in a generated binary-operator chain  a op b op c ...
MaxOperators == 3
\* largest magnitude of a numeric iterator in the generated loops
MaxCount == 3
\* digits after the decimal point written for a non-integer number
MaxFractionDigits == 12

---------------------------------------------------------------------------
(* Characters and strings *)

Digits == {"0", "1", "2", "3", "4", "5", "6", "7", "8", "9"}

LowerCase ==
    <<"a", "b", "c", "d", "e", "f", "g", "h", "i", "j", "k", "l", "m",
      "n", "o", "p", "q", "r", "s", "t", "u", "v", "w", "x", "y", "z">>

UpperCase ==
    <<"A", "B", "C", "D", "E", "F", "G", "H", "I", "J", "K", "L", "M",
      "N", "O", "P", "Q", "R", "S", "T", "U", "V", "W", "X", "Y", "Z">>

Range(f) == {f[i] : i \in DOMAIN f}

Letters == Range(LowerCase) \cup Range(UpperCase)

\* \w of a regular expression
WordChars == Letters \cup Digits \cup {"_"}

\* \s of a regular expression (the white space the model's inputs use)
SpaceChars == {" ", "\t", "\n", "\r"}

\* what . of a regular expression does not match
LineTerminators == {"\n", "\r"}

Min(S) == CHOOSE m \in S : \A o \in S : m <= o

Max(S) == CHOOSE m \in S : \A o \in S : m >= o

\* s.slice(from0) with a 0-based start
Slice(s, from0) == SubSeq(s, from0 + 1, Len(s))

\* whether lit occurs in s at the 1-based position pos
StartsWithAt(s, pos, lit) ==
    /\ pos >= 1
    /\ pos + Len(lit) - 1 <= Len(s)
    /\ SubSeq(s, pos, pos + Len(lit) - 1) = lit

\* the first 1-based position >= from at which lit occurs in s, or 0
IndexOfFrom(s, lit, from) ==
    LET hits == {i \in from..(Len(s) - Len(lit) + 1) : StartsWithAt(s, i, lit)}
    IN  IF hits = {} THEN 0 ELSE Min(hits)

\* the number of elements of s that are in the set cs
CountIn(s, cs) == Cardinality({i \in 1..Len(s) : s[i] \in cs})

\* the length of the longest prefix of s from the 1-based position pos made of characters of cs
RunLength(s, pos, cs) ==
    LET stops == {i \in pos..Len(s) : s[i] \notin cs}
    IN  IF stops = {} THEN Len(s) - pos + 1 ELSE Min(stops) - pos

RECURSIVE Concat(_)
\* the concatenation of a sequence of strings: list.join('')
Concat(list) ==
    IF list = <<>> THEN <<>> ELSE Head(list) \o Concat(Tail(list))

RECURSIVE JoinWith(_, _)
\* list.join(sep) for a list of strings
JoinWith(list, sep) ==
    IF list = <<>> THEN <<>>
    ELSE IF Len(list) = 1 THEN list[1]
    ELSE list[1] \o sep \o JoinWith(Tail(list), sep)

DigitValue(c) ==
    CASE c = "0" -> 0 [] c = "1" -> 1 [] c = "2" -> 2 [] c = "3" -> 3 [] c = "4" -> 4
      [] c = "5" -> 5 [] c = "6" -> 6 [] c = "7" -> 7 [] c = "8" -> 8 [] c = "9" -> 9

DigitChar(n) ==
    CASE n = 0 -> "0" [] n = 1 -> "1" [] n = 2 -> "2" [] n = 3 -> "3" [] n = 4 -> "4"
      [] n = 5 -> "5" [] n = 6 -> "6" [] n = 7 -> "7" [] n = 8 -> "8" [] n = 9 -> "9"

RECURSIVE DigitsToNat(_)
\* the value of a string of decimal digits
DigitsToNat(s) ==
    IF s = <<>> THEN 0
    ELSE DigitsToNat(SubSeq(s, 1, Len(s) - 1)) * 10 + DigitValue(s[Len(s)])

RECURSIVE NatToDigits(_)
\* the decimal digits of a natural number
NatToDigits(n) ==
    IF n < 10 THEN <<DigitChar(n)>>
    ELSE NatToDigits(n \div 10) \o <<DigitChar(n % 10)>>

RECURSIVE Power10(_)
Power10(k) == IF k = 0 THEN 1 ELSE 10 * Power10(k - 1)

---------------------------------------------------------------------------
(* The values of the host language *)

Undefined == [t |-> "undefined"]

Null == [t |-> "null"]

Bool(b) == [t |-> "boolean", v |-> b]

Str(s) == [t |-> "string", v |-> s]

\* an array: id stands for its identity (two arrays are == only when they are the same array)
Arr(id, elements) == [t |-> "array", id |-> id, e |-> elements]

\* a plain object: its own properties as <<key, value>> pairs in the order they were created
Obj(id, entries) == [t |-> "object", id |-> id, e |-> entries]

\* a function of the data context, known by its name
Fn(name) == [t |-> "function", name |-> name]

RECURSIVE GCD(_, _)
GCD(a, b) == IF b = 0 THEN a ELSE GCD(b, a % b)

Abs(n) == IF n < 0 THEN -n ELSE n

Sign(n) == IF n < 0 THEN -1 ELSE IF n > 0 THEN 1 ELSE 0

\* a number n/d in lowest terms; d = 0 stands for Infinity (n = 1), -Infinity (n = -1) and NaN (n = 0)
Num(n, d) ==
    IF d = 0 THEN [t |-> "number", n |-> Sign(n), d |-> 0]
    ELSE LET g == GCD(Abs(n), Abs(d))
             s == IF d < 0 THEN -1 ELSE 1
         IN  [t |-> "number", n |-> s * (n \div g), d |-> s * (d \div g)]

IntNum(n) == Num(n, 1)

NaN == Num(0, 0)

IsNaN(x) == x.t = "number" /\ x.d = 0 /\ x.n = 0

NumAdd(x, y) ==
    IF IsNaN(x) \/ IsNaN(y) THEN NaN
    ELSE IF x.d = 0 /\ y.d = 0 THEN (IF x.n = y.n THEN x ELSE NaN)
    ELSE IF x.d = 0 THEN x
    ELSE IF y.d = 0 THEN y
    ELSE Num(x.n * y.d + y.n * x.d, x.d * y.d)

NumNeg(x) == [t |-> "number", n |-> -x.n, d |-> x.d]

NumSub(x, y) == NumAdd(x, NumNeg(y))

NumMul(x, y) ==
    IF IsNaN(x) \/ IsNaN(y) THEN NaN ELSE Num(x.n * y.n, x.d * y.d)

NumDiv(x, y) ==
    IF IsNaN(x) \/ IsNaN(y) THEN NaN
    ELSE NumMul(x, IF y.n < 0 THEN Num(-y.d, -y.n) ELSE Num(y.d, y.n))

NumLess(x, y) ==
    IF IsNaN(x) \/ IsNaN(y) THEN FALSE
    ELSE IF x.d = 0 /\ y.d = 0 THEN x.n < y.n
    ELSE x.n * y.d < y.n * x.d

NumEqual(x, y) == ~IsNaN(x) /\ ~IsNaN(y) /\ x = y

RECURSIVE FractionDigits(_, _, _)
\* the digits of r/d (0 <= r < d) after the decimal point, at most k of them
FractionDigits(r, d, k) ==
    IF r = 0 \/ k = 0 THEN <<>>
    ELSE <<DigitChar((r * 10) \div d)>> \o FractionDigits((r * 10) % d, d, k - 1)

\* String(x) of a number
NumberToString(x) ==
    IF x.d = 0 THEN
        (IF x.n = 0 THEN <<"N", "a", "N">>
         ELSE (IF x.n < 0 THEN <<"-">> ELSE <<>>) \o <<"I", "n", "f", "i", "n", "i", "t", "y">>)
    ELSE LET a == Abs(x.n)
             whole == NatToDigits(a \div x.d)
             frac == FractionDigits(a % x.d, x.d, MaxFractionDigits)
         IN  (IF x.n < 0 THEN <<"-">> ELSE <<>>) \o whole
                 \o (IF frac = <<>> THEN <<>> ELSE <<".">> \o frac)

\* s without its leading and trailing white space
Trim(s) ==
    LET keep == {i \in 1..Len(s) : s[i] \notin SpaceChars}
    IN  IF keep = {} THEN <<>> ELSE SubSeq(s, Min(keep), Max(keep))

\* the value of the decimal literal whose digits before the point are whole and whose
\* text from the point on is rest; NaN when it is no literal
DecimalLiteral(whole, rest) ==
    IF rest = <<>> THEN (IF whole = <<>> THEN NaN ELSE IntNum(DigitsToNat(whole)))
    ELSE IF rest[1] # "." \/ RunLength(rest, 2, Digits) # Len(rest) - 1
            \/ Len(whole) + Len(rest) = 1
    THEN NaN
    ELSE Num(DigitsToNat(whole) * Power10(Len(rest) - 1) + DigitsToNat(Tail(rest)),
             Power10(Len(rest) - 1))

\* the value of an unsigned decimal literal
UnsignedDecimal(body) ==
    DecimalLiteral(SubSeq(body, 1, RunLength(body, 1, Digits)),
                   SubSeq(body, RunLength(body, 1, Digits) + 1, Len(body)))

\* the value of a trimmed string: the empty string is 0, a sign negates
SignedDecimal(t) ==
    IF t = <<>> THEN IntNum(0)
    ELSE IF t[1] = "-" THEN NumNeg(UnsignedDecimal(Tail(t)))
    ELSE UnsignedDecimal(IF t[1] = "+" THEN Tail(t) ELSE t)

\* Number(s) of a string: white space is trimmed, the empty string is 0, a decimal
\* literal with an optional sign is its value, anything else is NaN
StringToNumber(s) == SignedDecimal(Trim(s))

\* the truthiness of a value: what `if (value)` tests
ToBoolean(x) ==
    CASE x.t = "undefined" -> FALSE
      [] x.t = "null" -> FALSE
      [] x.t = "boolean" -> x.v
      [] x.t = "number" -> ~(IsNaN(x) \/ (x.n = 0 /\ x.d # 0))
      [] x.t = "string" -> x.v # <<>>
      [] OTHER -> TRUE

RECURSIVE StringOf(_)
RECURSIVE ArrayElementStrings(_)
\* the strings Array.prototype.join makes of the elements: '' for undefined and null
ArrayElementStrings(elements) ==
    IF elements = <<>> THEN <<>>
    ELSE <<IF Head(elements).t \in {"undefined", "null"} THEN <<>> ELSE StringOf(Head(elements))>>
            \o ArrayElementStrings(Tail(elements))

\* String(x)
StringOf(x) ==
    CASE x.t = "undefined" -> <<"u", "n", "d", "e", "f", "i", "n", "e", "d">>
      [] x.t = "null" -> <<"n", "u", "l", "l">>
      [] x.t = "boolean" -> (IF x.v THEN <<"t", "r", "u", "e">> ELSE <<"f", "a", "l", "s", "e">>)
      [] x.t = "number" -> NumberToString(x)
      [] x.t = "string" -> x.v
      [] x.t = "array" -> JoinWith(ArrayElementStrings(x.e), <<",">>)
      [] x.t = "object" ->
            <<"[", "o", "b", "j", "e", "c", "t", " ", "O", "b", "j", "e", "c", "t", "]">>
      [] OTHER -> <<"f", "u", "n", "c", "t", "i", "o", "n", " ">> \o x.name

\* the primitive an operator makes of an operand: arrays and objects become strings
ToPrimitive(x) ==
    IF x.t \in {"array", "object", "function"} THEN Str(StringOf(x)) ELSE x

\* Number(p) of a primitive value
PrimitiveToNumber(p) ==
    CASE p.t = "undefined" -> NaN
      [] p.t = "null" -> IntNum(0)
      [] p.t = "boolean" -> (IF p.v THEN IntNum(1) ELSE IntNum(0))
      [] p.t = "number" -> p
      [] OTHER -> StringToNumber(p.v)

\* Number(x)
ToNumber(x) == PrimitiveToNumber(ToPrimitive(x))

\* the UTF-16 code unit of a character (of the characters the model's strings use)
CharCode(c) ==
    IF c \in Digits THEN 48 + DigitValue(c)
    ELSE IF c \in Range(UpperCase) THEN 64 + (CHOOSE i \in 1..26 : UpperCase[i] = c)
    ELSE IF c \in Range(LowerCase) THEN 96 + (CHOOSE i \in 1..26 : LowerCase[i] = c)
    ELSE CASE c = "\t" -> 9 [] c = "\n" -> 10 [] c = "\r" -> 13 [] c = " " -> 32
           [] c = "!" -> 33 [] c = "#" -> 35 [] c = "$" -> 36 [] c = "&" -> 38
           [] c = "'" -> 39 [] c = "(" -> 40 [] c = ")" -> 41 [] c = "*" -> 42
           [] c = "+" -> 43 [] c = "," -> 44 [] c = "-" -> 45 [] c = "." -> 46
           [] c = "/" -> 47 [] c = ":" -> 58 [] c = ";" -> 59 [] c = "<" -> 60
           [] c = "=" -> 61 [] c = ">" -> 62 [] c = "?" -> 63 [] c = "[" -> 91
           [] c = "]" -> 93 [] c = "_" -> 95 [] c = "{" -> 123
           [] c = "|" -> 124 [] c = "}" -> 125

RECURSIVE StringLess(_, _)
\* a < b of two strings: the order of their code units
StringLess(a, b) ==
    IF b = <<>> THEN FALSE
    ELSE IF a = <<>> THEN TRUE
    ELSE IF a[1] = b[1] THEN StringLess(Tail(a), Tail(b))
    ELSE CharCode(a[1]) < CharCode(b[1])

---------------------------------------------------------------------------
(* Errors *)

NoError == [name |-> "none"]

\* new NanoError(`${what} ${value} (line ${line})`)
NanoError(what, value, line) ==
    [name |-> "NanoError", what |-> what, value |-> value, line |-> line]

---------------------------------------------------------------------------
(* The token rules.  A rule is a regular expression, known here by a name, *)
(* and the token type it produces ("null": the match is discarded).        *)

Rule(regexp, type) == [regexp |-> regexp, type |-> type]

expression_tokens ==
    << Rule("\\s+", "null"),
       Rule("<!--[\\s\\S]*?-->", "null"),
       Rule("(", "L_PARENTHESIS"),
       Rule(")", "R_PARENTHESIS"),
       Rule("[", "L_BRACKET"),
       Rule("]", "R_BRACKET"),
       Rule("{", "L_CURLY"),
       Rule("}", "R_CURLY"),
       Rule(",", "COMMA"),
       Rule(".", "DOT"),
       Rule("\\bimport\\b", "IMPORT"),
       Rule("\\bwith\\b", "WITH"),
       Rule("\\bfor\\b", "FOR"),
       Rule("\\bin\\b", "IN"),
       Rule("\\bif\\b", "IF"),
       Rule("\\belse\\b", "ELSE"),
       Rule("\\btrue\\b", "TRUE"),
       Rule("\\bfalse\\b", "FALSE"),
       Rule("\\bnull\\b", "NULL"),
       Rule("[+\\-]", "ADDITIVE"),
       Rule("[*\\/]", "MULTIPLICATIVE"),
       Rule("[=!]=", "EQUALITY"),
       Rule("[><]=?", "RELATIONAL"),
       Rule("&&", "AND"),
       Rule("\\|\\|", "OR"),
       Rule("!", "NOT"),
       Rule("\\d+(\\.\\d+)?", "NUMBER"),
       Rule("[A-Za-z0-9_$]+", "IDENTIFIER"),
       Rule("?", "QUESTIONMARK"),
       Rule(":", "COLON"),
       Rule("dq-string", "STRING"),
       Rule("sq-string", "STRING") >>

\* template_tokens with the type TEXT, not null, for the rule of comments
template_tokens_comment_text ==
    << Rule("<!--[\\s\\S]*?-->", "TEXT"),
       Rule("<(style|script).*?>[\\s\\S]*?<\\/(script|style)>", "TEXT"),
       Rule("{import .+}", "IMPORT"),
       Rule("{switch .+}", "SWITCH"),
       Rule("{case .+}", "CASE"),
       Rule("{[#!]{0,2}if .+}", "IF"),
       Rule("{[#!]{0,2}else if .+}", "ELSEIF"),
       Rule("{[#!]{0,2}else}", "ELSE"),
       Rule("{[#!]{0,2}for .+}", "FOR"),
       Rule("{/if}", "IF_END"),
       Rule("{/for}", "FOR_END"),
       Rule("{/switch}", "SWITCH_END"),
       Rule("{/case}", "CASE_END"),
       Rule("{[#!]{0,2}.*?}", "TAG"),
       Rule("[\\s\\S]?", "TEXT") >>

template_tokens ==
    << Rule("<!--[\\s\\S]*?-->", "null"),
       Rule("<(style|script).*?>[\\s\\S]*?<\\/(script|style)>", "TEXT"),
       Rule("{import .+}", "IMPORT"),
       Rule("{switch .+}", "SWITCH"),
       Rule("{case .+}", "CASE"),
       Rule("{[#!]{0,2}if .+}", "IF"),
       Rule("{[#!]{0,2}else if .+}", "ELSEIF"),
       Rule("{[#!]{0,2}else}", "ELSE"),
       Rule("{[#!]{0,2}for .+}", "FOR"),
       Rule("{/if}", "IF_END"),
       Rule("{/for}", "FOR_END"),
       Rule("{/switch}", "SWITCH_END"),
       Rule("{/case}", "CASE_END"),
       Rule("{[#!]{0,2}.*?}", "TAG"),
       Rule("[\\s\\S]?", "TEXT") >>

FlagChars == {"#", "!"}

\* the characters [A-Za-z0-9_$]+ matches
IdentifierChars == WordChars \cup {"$"}

kw_import == <<"i", "m", "p", "o", "r", "t">>
kw_with == <<"w", "i", "t", "h">>
kw_for == <<"f", "o", "r">>
kw_in == <<"i", "n">>
kw_if == <<"i", "f">>
kw_else == <<"e", "l", "s", "e">>
kw_else_if == <<"e", "l", "s", "e", " ", "i", "f">>
kw_true == <<"t", "r", "u", "e">>
kw_false == <<"f", "a", "l", "s", "e">>
kw_null == <<"n", "u", "l", "l">>
kw_switch == <<"s", "w", "i", "t", "c", "h">>
kw_case == <<"c", "a", "s", "e">>

\* The matchers below give the length of the match of an anchored (^) regular
\* expression at the start of s, or -1 when it does not match.

\* ^literal
MatchLiteral(s, lit) == IF StartsWithAt(s, 1, lit) THEN Len(lit) ELSE -1

\* ^[set]
MatchOneOf(s, cs) == IF s # <<>> /\ s[1] \in cs THEN 1 ELSE -1

\* ^\bword\b : s is a slice, so the first \b holds at its start
MatchKeyword(s, word) ==
    IF StartsWithAt(s, 1, word) /\ (Len(s) = Len(word) \/ s[Len(word) + 1] \notin WordChars)
    THEN Len(word) ELSE -1

\* ^[set]+
MatchRun(s, cs) == LET n == RunLength(s, 1, cs) IN IF n > 0 THEN n ELSE -1

\* ^<!--[\s\S]*?--> : lazily up to the first -->
MatchComment(s) ==
    IF ~StartsWithAt(s, 1, <<"<", "!", "-", "-">>) THEN -1
    ELSE LET close == IndexOfFrom(s, <<"-", "-", ">">>, 5)
         IN  IF close = 0 THEN -1 ELSE close + 2

\* ^<(style|script).*?>[\s\S]*?<\/(script|style)>
MatchVerbatim(s) ==
    LET style == <<"s", "t", "y", "l", "e">>
        script == <<"s", "c", "r", "i", "p", "t">>
        name == IF StartsWithAt(s, 2, style) THEN Len(style)
                ELSE IF StartsWithAt(s, 2, script) THEN Len(script) ELSE 0
        gt == IndexOfFrom(s, <<">">>, name + 2)
        closes == {i \in (gt + 1)..Len(s) :
                      \/ StartsWithAt(s, i, <<"<", "/">> \o script \o <<">">>)
                      \/ StartsWithAt(s, i, <<"<", "/">> \o style \o <<">">>)}
    IN  IF s = <<>> \/ s[1] # "<" \/ name = 0 \/ gt = 0 THEN -1
        ELSE IF \E i \in (name + 2)..(gt - 1) : s[i] \in LineTerminators THEN -1
        ELSE IF closes = {} THEN -1
        ELSE LET c == Min(closes)
             IN  IF StartsWithAt(s, c + 2, script) THEN c + 8 ELSE c + 7

\* ^{[#!]{0,maxflags}word .+} : .+ is greedy, the match ends at the last } of the
\* line the tag starts on
MatchBlockTag(s, word, maxflags) ==
    LET flags == RunLength(s, 2, FlagChars)
        first == 2 + flags + Len(word) + 1         \* where .+ starts
        stops == {i \in first..Len(s) : s[i] \in LineTerminators}
        lineEnd == IF stops = {} THEN Len(s) ELSE Min(stops) - 1
        closes == {i \in (first + 1)..lineEnd : s[i] = "}"}
    IN  IF s = <<>> \/ s[1] # "{" \/ flags > maxflags THEN -1
        ELSE IF ~StartsWithAt(s, 2 + flags, word \o <<" ">>) THEN -1
        ELSE IF closes = {} THEN -1
        ELSE Max(closes)

\* ^{[#!]{0,2}else}
MatchElseTag(s) ==
    LET flags == RunLength(s, 2, FlagChars)
    IN  IF s # <<>> /\ s[1] = "{" /\ flags <= 2 /\ StartsWithAt(s, 2 + flags, kw_else \o <<"}">>)
        THEN 1 + flags + 5 ELSE -1

\* ^{[#!]{0,2}.*?} : .*? is lazy, the match ends at the first } of the line
MatchTag(s) ==
    LET close == IndexOfFrom(s, <<"}">>, 2)
    IN  IF s = <<>> \/ s[1] # "{" \/ close = 0 THEN -1
        ELSE IF \E i \in 2..(close - 1) : s[i] \in LineTerminators THEN -1
        ELSE close

\* ^[=!]=
MatchEquality(s) ==
    IF Len(s) >= 2 /\ s[1] \in {"=", "!"} /\ s[2] = "=" THEN 2 ELSE -1

\* ^[><]=?
MatchRelational(s) ==
    IF s = <<>> \/ s[1] \notin {">", "<"} THEN -1
    ELSE IF Len(s) >= 2 /\ s[2] = "=" THEN 2 ELSE 1

\* ^\d+(\.\d+)?
MatchNumber(s) ==
    LET whole == RunLength(s, 1, Digits)
        fraction == IF Len(s) > whole /\ s[whole + 1] = "." THEN RunLength(s, whole + 2, Digits) ELSE 0
    IN  IF whole = 0 THEN -1
        ELSE IF fraction > 0 THEN whole + 1 + fraction ELSE whole

\* ^"[^"]*"  and  ^'[^']*'
MatchString(s, quote) ==
    LET close == IndexOfFrom(s, <<quote>>, 2)
    IN  IF s = <<>> \/ s[1] # quote \/ close = 0 THEN -1 ELSE close

\* token_regexp.exec(string_input): the length of regex_match[0], or -1 for null
return_token_match(token_regexp, string_input) ==
    LET s == string_input
        r == token_regexp
    IN  CASE r = "\\s+" -> MatchRun(s, SpaceChars)
          [] r = "<!--[\\s\\S]*?-->" -> MatchComment(s)
          [] r \in {"(", ")", "[", "]", "{", "}", ",", ".", "!", "?", ":"} -> MatchLiteral(s, <<r>>)
          [] r = "\\bimport\\b" -> MatchKeyword(s, kw_import)
          [] r = "\\bwith\\b" -> MatchKeyword(s, kw_with)
          [] r = "\\bfor\\b" -> MatchKeyword(s, kw_for)
          [] r = "\\bin\\b" -> MatchKeyword(s, kw_in)
          [] r = "\\bif\\b" -> MatchKeyword(s, kw_if)
          [] r = "\\belse\\b" -> MatchKeyword(s, kw_else)
          [] r = "\\btrue\\b" -> MatchKeyword(s, kw_true)
          [] r = "\\bfalse\\b" -> MatchKeyword(s, kw_false)
          [] r = "\\bnull\\b" -> MatchKeyword(s, kw_null)
          [] r = "[+\\-]" -> MatchOneOf(s, {"+", "-"})
          [] r = "[*\\/]" -> MatchOneOf(s, {"*", "/"})
          [] r = "[=!]=" -> MatchEquality(s)
          [] r = "[><]=?" -> MatchRelational(s)
          [] r = "&&" -> MatchLiteral(s, <<"&", "&">>)
          [] r = "\\|\\|" -> MatchLiteral(s, <<"|", "|">>)
          [] r = "\\d+(\\.\\d+)?" -> MatchNumber(s)
          [] r = "[A-Za-z0-9_$]+" -> MatchRun(s, IdentifierChars)
          [] r = "dq-string" -> MatchString(s, "\"")
          [] r = "sq-string" -> MatchString(s, "'")
          [] r = "<(style|script).*?>[\\s\\S]*?<\\/(script|style)>" -> MatchVerbatim(s)
          [] r = "{import .+}" -> MatchBlockTag(s, kw_import, 0)
          [] r = "{switch .+}" -> MatchBlockTag(s, kw_switch, 0)
          [] r = "{case .+}" -> MatchBlockTag(s, kw_case, 0)
          [] r = "{[#!]{0,2}if .+}" -> MatchBlockTag(s, kw_if, 2)
          [] r = "{[#!]{0,2}else if .+}" -> MatchBlockTag(s, kw_else_if, 2)
          [] r = "{[#!]{0,2}else}" -> MatchElseTag(s)
          [] r = "{[#!]{0,2}for .+}" -> MatchBlockTag(s, kw_for, 2)
          [] r = "{/if}" -> MatchLiteral(s, <<"{", "/">> \o kw_if \o <<"}">>)
          [] r = "{/for}" -> MatchLiteral(s, <<"{", "/">> \o kw_for \o <<"}">>)
          [] r = "{/switch}" -> MatchLiteral(s, <<"{", "/">> \o kw_switch \o <<"}">>)
          [] r = "{/case}" -> MatchLiteral(s, <<"{", "/">> \o kw_case \o <<"}">>)
          [] r = "{[#!]{0,2}.*?}" -> MatchTag(s)
          [] r = "[\\s\\S]?" -> IF s = <<>> THEN 0 ELSE 1

---------------------------------------------------------------------------
(* Tokenizer *)

Token(type, value) == [type |-> type, value |-> value]

\* next_token === null
NoToken == [type |-> "null", value |-> <<>>]

\* has_remaining_tokens()
has_remaining_tokens(tk) == tk.cursor < Len(tk.input_template)

\* the index of the first rule of token_spec that matches input, or 0
FirstMatchingRule(token_spec, input) ==
    LET hits == {i \in 1..Len(token_spec) : return_token_match(token_spec[i].regexp, input) # -1}
    IN  IF hits = {} THEN 0 ELSE Min(hits)

RECURSIVE Call(_, _)
RECURSIVE traverse_next_token(_)

\* throw error: the tokenizer holds the error thrown, and no token is read from it again
Throws(tk, thrown) == [tk EXCEPT !.error = thrown, !.next_token = NoToken]

\* the body of the loop of traverse_next_token() for the rule that matched: the match is
\* consumed, and a rule without a type (white space, a comment) is skipped
traverse_token_match(tk, input, token_type, length) ==
    LET token_match == SubSeq(input, 1, length)
        moved == [tk EXCEPT !.input = input,
                            !.line = tk.line + CountIn(token_match, {"\n"}),
                            !.cursor = tk.cursor + length]
    IN  IF token_type = "null" THEN traverse_next_token(moved)
        ELSE [moved EXCEPT !.next_token = Token(token_type, token_match)]

\* the loop of traverse_next_token() over token_spec, which stops at the first rule (rule)
\* that matches the input, and the error thrown when none does
traverse_token_spec(tk, input, rule) ==
    IF rule = 0
    THEN Throws([tk EXCEPT !.input = input], NanoError("Unexpected token", <<input[1]>>, tk.line))
    ELSE traverse_token_match(tk, input, tk.token_spec[rule].type,
                              return_token_match(tk.token_spec[rule].regexp, input))

\* traverse_next_token(): the tokenizer after the call, with the token it returned
\* as next_token, or with the error it threw
traverse_next_token(tk) ==
    IF ~has_remaining_tokens(tk) THEN [tk EXCEPT !.next_token = NoToken]
    ELSE traverse_token_spec(tk, Slice(tk.input_template, tk.cursor),
                             FirstMatchingRule(tk.token_spec, Slice(tk.input_template, tk.cursor)))

\* Tokenizer(input_template, token_spec, line_offset)
Tokenizer(template, token_spec, line_offset) ==
    traverse_next_token(
        [input_template |-> template,
         token_spec |-> token_spec,
         line |-> IF line_offset = 0 THEN 1 ELSE line_offset,
         cursor |-> 0,
         input |-> template,
         next_token |-> NoToken,
         error |-> NoError])

Failed(tk) == tk.error # NoError

\* tokenizer.next() && tokenizer.next()?.type === type
NextIs(tk, type) == tk.next_token.type = type

\* tokenizer.next() is a token
HasNext(tk) == tk.next_token # NoToken

\* advance(token_type_match) = traverse_and_set_token: the tokenizer after the call;
\* the token it returned is the next_token of the tokenizer before the call.
\* A tokenizer that has thrown stays as it is: the exception ends the parse.
advance(tk, token_type_match) ==
    CASE Failed(tk) -> tk
      [] tk.next_token = NoToken ->
            Throws(tk, NanoError("Unexpected end of input", <<>>, tk.line))
      [] tk.next_token.type # token_type_match ->
            Throws(tk, NanoError("Unexpected token", tk.next_token.value, tk.line))
      [] OTHER -> traverse_next_token(tk)

\* what a call on a tokenizer object gives: the object after the call, the token returned
\* (NoToken for null) and the error thrown (NoError when the call returned)
Returns(tk, token) == [tokenizer |-> tk, token |-> token, thrown |-> NoError]

\* throw new NanoError(...) before any assignment: the object is as it was
Raises(tk, thrown) == [tokenizer |-> tk, token |-> NoToken, thrown |-> thrown]

\* traverse_and_set_token() with next_token = traverse_next_token() before the two tests
traverse_and_set_token_eager(tk, token_type_match) ==
    CASE tk.next_token = NoToken ->
            Raises(tk, NanoError("Unexpected end of input", <<>>, tk.line))
      [] tk.next_token.type # token_type_match ->
            Raises([traverse_next_token(tk) EXCEPT !.error = NoError],
                   NanoError("Unexpected token", tk.next_token.value, tk.line))
      [] OTHER -> Returns(traverse_next_token(tk), tk.next_token)

\* const current_token = next_token; next_token = traverse_next_token(); return current_token
\* where moved is traverse_next_token(): when it throws, next_token is not assigned, and
\* line, cursor and input are what traverse_next_token() made of them before it threw
SetToken(tk, moved) ==
    IF Failed(moved)
    THEN Raises([tk EXCEPT !.line = moved.line, !.cursor = moved.cursor, !.input = moved.input],
                moved.error)
    ELSE Returns(moved, tk.next_token)

\* traverse_and_set_token(token_type_match) on a tokenizer object
traverse_and_set_token(tk, token_type_match) ==
    CASE tk.next_token = NoToken ->
            Raises(tk, NanoError("Unexpected end of input", <<>>, tk.line))
      [] tk.next_token.type # token_type_match ->
            Raises(tk, NanoError("Unexpected token", tk.next_token.value, tk.line))
      [] OTHER -> SetToken(tk, traverse_next_token(tk))

\* return_next_token()
return_next_token(tk) == Returns(tk, tk.next_token)

---------------------------------------------------------------------------
(* ExpressionParser.  Every parsing function takes the tokenizer and gives *)
(* the node it returns with the tokenizer after it; a thrown error is the  *)
(* error of that tokenizer.                                                *)

RECURSIVE Expression(_)
RECURSIVE FunctionArgumentListLoop(_)
RECURSIVE CallExpression(_, _)
RECURSIVE MemberExpressionLoop(_)
RECURSIVE UnaryExpression(_)
RECURSIVE BinaryExpression(_, _, _)
RECURSIVE LogicalExpression(_, _, _)
RECURSIVE IdentifierListLoop(_)
RECURSIVE ImportStatementArgumentLoop(_)

\* what a parsing function gives: the node, the tokenizer after it, and the type of the
\* token that tokenizer is at ("null" at the end of the input and after an error)
Parsed(node, tk) == [node |-> node, tk |-> tk, next |-> tk.next_token.type]

\* ExpressionParser(input_expression, line_offset): the parser's tokenizer
ExpressionParser(input_expression, line_offset) ==
    Call("Tokenizer", <<input_expression, expression_tokens, line_offset>>)

Identifier(tk) ==
    Parsed([type |-> "Identifier", value |-> tk.next_token.value], Call("advance", <<tk, "IDENTIFIER">>))

TrueLiteral(tk) ==
    Parsed([type |-> "BooleanLiteral", value |-> Bool(TRUE)], Call("advance", <<tk, "TRUE">>))

FalseLiteral(tk) ==
    Parsed([type |-> "BooleanLiteral", value |-> Bool(FALSE)], Call("advance", <<tk, "FALSE">>))

NullLiteral(tk) ==
    Parsed([type |-> "NullLiteral", value |-> Null], Call("advance", <<tk, "NULL">>))

\* StringLiteral() with the whole token as its value: value: token.value
StringLiteral_quoted(tk) ==
    Parsed([type |-> "StringLiteral", value |-> Str(tk.next_token.value)],
           Call("advance", <<tk, "STRING">>))

\* value: token.value.slice(1, -1)
StringLiteral(tk) ==
    Parsed([type |-> "StringLiteral",
            value |-> Str(SubSeq(tk.next_token.value, 2, Len(tk.next_token.value) - 1))],
           Call("advance", <<tk, "STRING">>))

\* value: Number(token.value)
NumericLiteral(tk) ==
    Parsed([type |-> "NumericLiteral", value |-> StringToNumber(tk.next_token.value)],
           Call("advance", <<tk, "NUMBER">>))

Literal(tk) ==
    CASE NextIs(tk, "TRUE") -> TrueLiteral(tk)
      [] NextIs(tk, "FALSE") -> FalseLiteral(tk)
      [] NextIs(tk, "NULL") -> NullLiteral(tk)
      [] NextIs(tk, "STRING") -> StringLiteral(tk)
      [] NextIs(tk, "NUMBER") -> NumericLiteral(tk)
      [] Failed(tk) -> Parsed(Undefined, tk)
      [] OTHER -> Parsed(Undefined, Throws(tk, NanoError("Unknown tag", tk.input, tk.line)))

\* ParenthesisExpression() after the expression between the parentheses
ParenthesisClose(expression) ==
    Parsed(expression.node, Call("advance", <<expression.tk, "R_PARENTHESIS">>))

ParenthesisExpression(tk) == ParenthesisClose(Expression(Call("advance", <<tk, "L_PARENTHESIS">>)))

PrimaryExpression(tk) ==
    CASE NextIs(tk, "L_PARENTHESIS") -> ParenthesisExpression(tk)
      [] NextIs(tk, "IDENTIFIER") -> Identifier(tk)
      [] OTHER -> Literal(tk)

\* argument_list.push(Expression())
PushArgument(argument_list, argument) ==
    [next |-> argument.next, node |-> Append(argument_list.node, argument.node), tk |-> argument.tk]

\* the do ... while of FunctionArgumentList; argument_list holds the arguments so far
FunctionArgumentListLoop(argument_list) ==
    IF argument_list.next = "COMMA"
    THEN FunctionArgumentListLoop(
            PushArgument(argument_list, Expression(Call("advance", <<argument_list.tk, "COMMA">>))))
    ELSE argument_list

\* FunctionArgumentList() after tokenizer.advance('L_PARENTHESIS')
FunctionArguments(open) ==
    IF HasNext(open) /\ open.next_token.type # "R_PARENTHESIS"
    THEN FunctionArgumentListLoop(PushArgument(Parsed(<<>>, open), Expression(open)))
    ELSE Parsed(<<>>, open)

\* FunctionArgumentList() after the arguments
FunctionArgumentsClose(list) == Parsed(list.node, Call("advance", <<list.tk, "R_PARENTHESIS">>))

FunctionArgumentList(tk) ==
    FunctionArgumentsClose(FunctionArguments(Call("advance", <<tk, "L_PARENTHESIS">>)))

\* the CallExpression node of a callee and its argument list
CallNode(nested_expression, argument_list) ==
    [next |-> argument_list.next,
     node |-> [type |-> "CallExpression", callee |-> nested_expression,
               arguments |-> argument_list.node],
     tk |-> argument_list.tk]

\* CallExpression(nested_expression), current_expression being the node of the call parsed
CallAgain(current_expression) ==
    IF current_expression.next = "L_PARENTHESIS"
    THEN CallExpression(current_expression.node, current_expression.tk)
    ELSE current_expression

CallExpression(nested_expression, tk) ==
    CallAgain(CallNode(nested_expression, FunctionArgumentList(tk)))

\* the node of  object.property
MemberNode(object, property) ==
    [next |-> property.next,
     node |-> [type |-> "MemberExpression", object |-> object.node, property |-> property.node],
     tk |-> property.tk]

\* the node of  object[property]
MemberBracketNode(object, property) ==
    Parsed([type |-> "MemberBracketExpression", object |-> object.node,
            property |-> property.node],
           Call("advance", <<property.tk, "R_BRACKET">>))

\* the while loop of MemberExpression; object is the node parsed so far with its tokenizer
MemberExpressionLoop(object) ==
    CASE object.next = "DOT" ->
            MemberExpressionLoop(
                MemberNode(object, Identifier(Call("advance", <<object.tk, "DOT">>))))
      [] object.next = "L_BRACKET" ->
            MemberExpressionLoop(
                MemberBracketNode(object, Expression(Call("advance", <<object.tk, "L_BRACKET">>))))
      [] object.next = "L_PARENTHESIS" ->
            MemberExpressionLoop(CallExpression(object.node, object.tk))
      [] OTHER -> object

MemberExpression(tk) == MemberExpressionLoop(PrimaryExpression(tk))

\* the node of a unary operator and its operand
UnaryNode(unary_operator, value) ==
    [next |-> value.next,
     node |-> [type |-> "UnaryExpression", operator |-> unary_operator.value, value |-> value.node],
     tk |-> value.tk]

UnaryExpression(tk) ==
    IF tk.next_token.type \in {"ADDITIVE", "NOT"}
    THEN UnaryNode(tk.next_token, UnaryExpression(Call("advance", <<tk, tk.next_token.type>>)))
    ELSE MemberExpression(tk)

\* the node of  left operator right, the operator being the token left stops at
BinaryNode(type, left, right) ==
    [next |-> right.next,
     node |-> [type |-> type, operator |-> left.tk.next_token.value,
               left |-> left.node, right |-> right.node],
     tk |-> right.tk]

\* BinaryExpression(expression_method, token_type) from its while loop on: left is the
\* result of the first expression_method(), and later the node parsed so far, with its
\* tokenizer; expression_method is called by its name
BinaryExpression(expression_method, token_type, left) ==
    IF left.next = token_type
    THEN BinaryExpression(expression_method, token_type,
            BinaryNode("BinaryExpression", left,
                       Call(expression_method, <<Call("advance", <<left.tk, token_type>>)>>)))
    ELSE left

\* LogicalExpression(expression_method, token_type) from its while loop on
LogicalExpression(expression_method, token_type, left) ==
    IF left.next = token_type
    THEN LogicalExpression(expression_method, token_type,
            BinaryNode("LogicalExpression", left,
                       Call(expression_method, <<Call("advance", <<left.tk, token_type>>)>>)))
    ELSE left

\* BinaryExpression(this.UnaryExpression, 'MULTIPLICATIVE')
MultiExpression(tk) ==
    BinaryExpression("UnaryExpression", "MULTIPLICATIVE", UnaryExpression(tk))

\* AddExpression() as BinaryExpression(this.UnaryExpression, 'ADDITIVE')
AddExpression_UnaryExpression(tk) ==
    BinaryExpression("UnaryExpression", "ADDITIVE", UnaryExpression(tk))

\* BinaryExpression(this.MultiExpression, 'ADDITIVE')
AddExpression(tk) ==
    BinaryExpression("MultiExpression", "ADDITIVE", MultiExpression(tk))

\* BinaryExpression(this.AddExpression, 'RELATIONAL')
RelationalExpression(tk) ==
    BinaryExpression("AddExpression", "RELATIONAL", AddExpression(tk))

\* BinaryExpression(this.RelationalExpression, 'EQUALITY')
EqualityExpression(tk) ==
    BinaryExpression("RelationalExpression", "EQUALITY", RelationalExpression(tk))

\* LogicalExpression(this.EqualityExpression, 'OR')
AndExpression(tk) ==
    LogicalExpression("EqualityExpression", "OR", EqualityExpression(tk))

\* LogicalExpression(this.AndExpression, 'AND')
OrExpression(tk) ==
    LogicalExpression("AndExpression", "AND", AndExpression(tk))

\* the node of  test ? consequent : alternate
ConditionalNode(test, consequent, alternate) ==
    [next |-> alternate.next,
     node |-> [type |-> "ConditionalExpression", test |-> test.node,
               consequent |-> consequent.node, alternate |-> alternate.node],
     tk |-> alternate.tk]

\* ConditionalExpression() after the consequent
ConditionalAlternate(test, consequent) ==
    ConditionalNode(test, consequent, Expression(Call("advance", <<consequent.tk, "COLON">>)))

\* ConditionalExpression() after the OrExpression() it starts with
ConditionalTest(left) ==
    IF left.next = "QUESTIONMARK"
    THEN ConditionalAlternate(left, Expression(Call("advance", <<left.tk, "QUESTIONMARK">>)))
    ELSE left

ConditionalExpression(tk) == ConditionalTest(OrExpression(tk))

Expression(tk) == ConditionalExpression(tk)

\* declarations.push(Identifier())
PushDeclaration(declarations, declaration) ==
    [next |-> declaration.next, node |-> Append(declarations.node, declaration.node),
     tk |-> declaration.tk]

\* the do ... while of IdentifierList; declarations holds the identifiers so far
IdentifierListLoop(declarations) ==
    IF declarations.next = "COMMA"
    THEN IdentifierListLoop(
            PushDeclaration(declarations, Identifier(Call("advance", <<declarations.tk, "COMMA">>))))
    ELSE declarations

IdentifierList(tk) == IdentifierListLoop(PushDeclaration(Parsed(<<>>, tk), Identifier(tk)))

\* the node of  key: value
ImportStatementArgumentNode(key, value) ==
    Parsed([type |-> "ImportStatementArgument", key |-> key.node.value, value |-> value.node],
           value.tk)

\* ImportStatementArgument() after the key
ImportStatementArgumentValue(key) ==
    ImportStatementArgumentNode(key, Call("Expression", <<Call("advance", <<key.tk, "COLON">>)>>))

ImportStatementArgument(tk) == ImportStatementArgumentValue(Identifier(tk))

\* the do ... while of ImportStatement; import_with holds the arguments so far
ImportStatementArgumentLoop(import_with) ==
    IF import_with.next = "COMMA"
    THEN ImportStatementArgumentLoop(
            PushArgument(import_with,
                         ImportStatementArgument(Call("advance", <<import_with.tk, "COMMA">>))))
    ELSE import_with

\* the with (...) list of ImportStatement after tokenizer.advance('L_PARENTHESIS')
ImportStatementArguments(open) ==
    ImportStatementArgumentLoop(PushArgument(Parsed(<<>>, open), ImportStatementArgument(open)))

\* the with (...) list of ImportStatement, when there is one
ImportStatementWith(tk) ==
    IF NextIs(tk, "WITH")
    THEN FunctionArgumentsClose(
            ImportStatementArguments(
                Call("advance", <<Call("advance", <<tk, "WITH">>), "L_PARENTHESIS">>)))
    ELSE Parsed(<<>>, tk)

\* the node of  import path with (...)
ImportStatementNode(import_path, import_with) ==
    Parsed([type |-> "ImportStatement", path |-> import_path.node, with |-> import_with.node],
           import_with.tk)

\* ImportStatement() after the path
ImportStatementPath(import_path) ==
    ImportStatementNode(import_path, ImportStatementWith(import_path.tk))

ImportStatement(tk) ==
    ImportStatementPath(Call("Expression", <<Call("advance", <<tk, "IMPORT">>)>>))

\* the node of  if test
IfStatementNode(test) == Parsed([type |-> "IfStatement", test |-> test.node], test.tk)

IfStatement(tk) ==
    IfStatementNode(
        Call("Expression", <<Call("advance", <<
            IF NextIs(tk, "ELSE") THEN Call("advance", <<tk, "ELSE">>) ELSE tk, "IF">>)>>))

\* the node of  for identifiers in iterator
ForStatementNode(identifiers, iterator) ==
    Parsed([type |-> "ForStatement",
            identifiers |-> [i \in 1..Len(identifiers.node) |-> identifiers.node[i].value],
            iterator |-> iterator.node],
           iterator.tk)

\* ForStatement() after the identifiers
ForStatementIterator(identifiers) ==
    ForStatementNode(identifiers,
                     Call("Expression", <<Call("advance", <<identifiers.tk, "IN">>)>>))

ForStatement(tk) == ForStatementIterator(IdentifierList(Call("advance", <<tk, "FOR">>)))

---------------------------------------------------------------------------
(* TemplateParser *)

RECURSIVE parse_token(_, _)
RECURSIVE BlockListLoop(_, _, _)
RECURSIVE IfLoop(_, _)
RECURSIVE TextLoop(_, _)

\* an error thrown by the expression parser of a tag leaves the template parser as it is
\* thrown: the template tokenizer carries it from there on
Rethrow(tk, expression_tk) ==
    IF Failed(tk) \/ ~Failed(expression_tk) THEN tk ELSE Throws(tk, expression_tk.error)

\* handle_statement_tag(tag_string)
handle_statement_tag(tag_string) ==
    LET raw_string == SubSeq(tag_string, 2, Len(tag_string) - 1)
        run == RunLength(raw_string, 1, FlagChars)
        raw_flags == SubSeq(raw_string, 1, IF run > 2 THEN 2 ELSE run)
    IN  [flags |-> raw_flags, expression |-> Slice(raw_string, Len(raw_flags))]

\* next_node.flags = flags without the test of next_node.type: every child is stamped
WithFlags_every(next_node, flags) ==
    IF Len(flags) > 0 THEN [next_node EXCEPT !.type = @] @@ [flags |-> flags] ELSE next_node

\* next_node.flags = flags, for a Text node under a flagged block
WithFlags(next_node, flags) ==
    IF next_node.type = "Text" /\ Len(flags) > 0
    THEN [type |-> "Text", value |-> next_node.value, flags |-> flags]
    ELSE next_node

\* if (next_node !== null) { ... node_list.push(next_node) }
PushNode(node_list, next_node, flags) ==
    IF next_node = Null THEN node_list ELSE Append(node_list, WithFlags(next_node, flags))

\* one turn of the while loop of BlockList: next_node is what parse_token() gave
BlockListPush(flags, node_list, next_node) ==
    [next |-> next_node.next,
     node |-> PushNode(node_list.node, next_node.node, flags),
     tk |-> next_node.tk]

\* the while loop of BlockList; node_list holds the nodes so far with the tokenizer
BlockListLoop(token_type_limit, flags, node_list) ==
    IF node_list.next \notin {"null", token_type_limit}
    THEN BlockListLoop(token_type_limit, flags,
            BlockListPush(flags, node_list, parse_token(node_list.next, node_list.tk)))
    ELSE node_list

\* the BlockList node of a node list
BlockListNode(node_list) ==
    [next |-> node_list.next,
     node |-> [type |-> "BlockList", nodes |-> node_list.node],
     tk |-> node_list.tk]

\* BlockList(token_type_limit, flags); token_type_limit "undefined" is no limit
BlockList(token_type_limit, flags, tk) ==
    BlockListNode(BlockListLoop(token_type_limit, flags, Parsed(<<>>, tk)))

\* Import() after the statement
ImportNode(advanced, statement) ==
    Parsed([type |-> "Import", statement |-> statement.node], Rethrow(advanced, statement.tk))

\* Import() after tokenizer.advance('IMPORT')
ImportExpression(expression, advanced) ==
    ImportNode(advanced, ImportStatement(ExpressionParser(expression, advanced.line - 1)))

Import(tk) ==
    ImportExpression(SubSeq(tk.next_token.value, 2, Len(tk.next_token.value) - 1),
                     Call("advance", <<tk, "IMPORT">>))

\* Close() without its try and catch: the error of tokenizer.advance() is what is thrown
Close_uncaught(tk, token_type, required, message) ==
    IF Failed(tk) \/ ~required THEN tk ELSE Call("advance", <<tk, token_type>>)

\* try { tokenizer.advance(token_type) } catch { throw new NanoError(message) }, skipped when
\* required is false; tk is the tokenizer after the block
Close(tk, token_type, required, message) ==
    CASE Failed(tk) \/ ~required -> tk
      [] Failed(Call("advance", <<tk, token_type>>)) -> Throws(tk, NanoError(message, <<>>, tk.line))
      [] OTHER -> Call("advance", <<tk, token_type>>)

\* For() after the block: the closing tag
ForNode(statement, value) ==
    Parsed([type |-> "For", statement |-> statement, value |-> value.node],
           Close(value.tk, "FOR_END", TRUE, "Missing {/for} closing tag"))

\* For() after the statement: the block
ForBlock(flags, advanced, statement) ==
    ForNode(statement.node, BlockList("FOR_END", flags, Rethrow(advanced, statement.tk)))

\* For() after tokenizer.advance('FOR')
ForBody(tag, advanced) ==
    ForBlock(tag.flags, advanced, ForStatement(ExpressionParser(tag.expression, advanced.line - 1)))

For(tk) == ForBody(handle_statement_tag(tk.next_token.value), Call("advance", <<tk, "FOR">>))

\* one turn of the while loop of If: next_node is what parse_token(next_type) gave, which
\* is the alternate when next_type is ELSEIF or ELSE, and is pushed to consequent.nodes otherwise
IfPush(flags, body, next_type, next_node) ==
    [next |-> next_node.next,
     nodes |-> IF next_node.node # Null /\ next_type \in {"ELSEIF", "ELSE"} THEN body.nodes
               ELSE PushNode(body.nodes, next_node.node, flags),
     alternate |-> IF next_node.node # Null /\ next_type \in {"ELSEIF", "ELSE"} THEN next_node.node
                   ELSE body.alternate,
     tk |-> next_node.tk]

\* the while loop of If; body holds consequent.nodes and alternate so far with the tokenizer
IfLoop(flags, body) ==
    IF body.next \notin {"null", "IF_END"}
    THEN IfLoop(flags, IfPush(flags, body, body.next, parse_token(body.next, body.tk)))
    ELSE body

\* If() with tokenizer.advance('IF_END') for every token_type: an else if takes the closing
\* tag too
IfNode_closing(token_type, statement, body) ==
    Parsed([type |-> "If",
            statement |-> statement,
            consequent |-> [type |-> "BlockList", nodes |-> body.nodes],
            alternate |-> body.alternate],
           Close(body.tk, "IF_END", TRUE, "Missing {/if} closing tag"))

\* If() after the while loop: the closing tag
IfNode(token_type, statement, body) ==
    Parsed([type |-> "If",
            statement |-> statement,
            consequent |-> [type |-> "BlockList", nodes |-> body.nodes],
            alternate |-> body.alternate],
           Close(body.tk, "IF_END", token_type = "IF", "Missing {/if} closing tag"))

\* the state of If() before its while loop
IfStart(tk) == [next |-> tk.next_token.type, nodes |-> <<>>, alternate |-> Null, tk |-> tk]

\* If() after the statement: the while loop
IfBlock(token_type, flags, advanced, statement) ==
    IfNode(token_type, statement.node,
           IfLoop(flags, IfStart(Rethrow(advanced, statement.tk))))

\* If() after tokenizer.advance(token_type)
IfBody(token_type, tag, advanced) ==
    IfBlock(token_type, tag.flags, advanced,
            IfStatement(ExpressionParser(tag.expression, advanced.line - 1)))

\* If(token_type), token_type 'IF' or 'ELSEIF'
If(token_type, tk) ==
    IfBody(token_type, handle_statement_tag(tk.next_token.value), Call("advance", <<tk, token_type>>))

ElseIf(tk) == If("ELSEIF", tk)

\* the Else node of its block
ElseNode(value) ==
    [next |-> value.next, node |-> [type |-> "Else", value |-> value.node], tk |-> value.tk]

Else(tk) ==
    ElseNode(BlockList("IF_END", handle_statement_tag(tk.next_token.value).flags,
                       Call("advance", <<tk, "ELSE">>)))

\* the Tag node of its expression
TagNode(flags, advanced, value) ==
    Parsed(IF Len(flags) > 0
           THEN [type |-> "Tag", value |-> value.node, flags |-> flags]
           ELSE [type |-> "Tag", value |-> value.node],
           Rethrow(advanced, value.tk))

\* Tag() after tokenizer.advance('TAG')
TagBody(tag, advanced) ==
    TagNode(tag.flags, advanced,
            Call("Expression", <<ExpressionParser(tag.expression, advanced.line - 1)>>))

Tag(tk) == TagBody(handle_statement_tag(tk.next_token.value), Call("advance", <<tk, "TAG">>))

\* the while loop of Text
TextLoop(tk, token_value) ==
    IF NextIs(tk, "TEXT")
    THEN TextLoop(Call("advance", <<tk, "TEXT">>), token_value \o tk.next_token.value)
    ELSE Parsed([type |-> "Text", value |-> token_value], tk)

Text(tk) == TextLoop(Call("advance", <<tk, "TEXT">>), tk.next_token.value)

\* Skip() that reads nothing: return null without tokenizer.advance()
Skip_idle(tk) == Parsed(Null, tk)

\* Skip(): advance() without a type, which no token's type equals
Skip(tk) == Parsed(Null, Call("advance", <<tk, "undefined">>))

parse_token(token_type, tk) ==
    CASE token_type = "IMPORT" -> Import(tk)
      [] token_type = "IF" -> If("IF", tk)
      [] token_type = "ELSEIF" -> ElseIf(tk)
      [] token_type = "ELSE" -> Else(tk)
      [] token_type = "FOR" -> For(tk)
      [] token_type = "TAG" -> Tag(tk)
      [] token_type = "TEXT" -> Text(tk)
      [] OTHER -> Skip(tk)

\* TemplateParser(input_template): the parser's tokenizer
TemplateParser(template) == Call("Tokenizer", <<template, template_tokens, 0>>)

\* what parse() returns for the tokenizer it leaves: the BlockList, or the error thrown
ParseResult(list) ==
    [error |-> list.tk.error,
     node |-> IF list.tk.error = NoError THEN list.node ELSE Undefined]

\* parse(input_template)
parse(template) == ParseResult(BlockList("undefined", <<>>, TemplateParser(template)))

---------------------------------------------------------------------------
(* Objects, properties and operators of the host language *)

\* obj[key] of a plain object given by its <<key, value>> pairs (own properties only:
\* the model's keys never name a member of Object.prototype)
ObjGet(entries, key) ==
    LET hits == {i \in 1..Len(entries) : entries[i][1] = key}
    IN  IF hits = {} THEN Undefined ELSE entries[Min(hits)][2]

ObjHas(entries, key) == \E i \in 1..Len(entries) : entries[i][1] = key

\* obj[key] = value: an existing property keeps its place, a new one is added last
ObjSet(entries, key, value) ==
    IF ObjHas(entries, key)
    THEN [i \in 1..Len(entries) |-> IF entries[i][1] = key THEN <<key, value>> ELSE entries[i]]
    ELSE Append(entries, <<key, value>>)

\* whether a property key is an array index: a canonical decimal numeral
IsArrayIndex(key) ==
    /\ key # <<>>
    /\ RunLength(key, 1, Digits) = Len(key)
    /\ (Len(key) = 1 \/ key[1] # "0")

RECURSIVE SortedIndexKeys(_)
\* the array-index keys of a set, in ascending numeric order
SortedIndexKeys(keys) ==
    IF keys = {} THEN <<>>
    ELSE LET least == CHOOSE k \in keys : \A o \in keys : DigitsToNat(k) <= DigitsToNat(o)
         IN  <<least>> \o SortedIndexKeys(keys \ {least})

\* the subsequence of s whose elements satisfy being outside the set drop
RECURSIVE Without(_, _)
Without(s, drop) ==
    IF s = <<>> THEN <<>>
    ELSE (IF Head(s) \in drop THEN <<>> ELSE <<Head(s)>>) \o Without(Tail(s), drop)

\* Object.keys(obj): the array-index keys in ascending order, then the other keys in
\* the order in which they were created
ObjectKeys(entries) ==
    LET keys == [i \in 1..Len(entries) |-> entries[i][1]]
        indexKeys == {keys[i] : i \in {j \in 1..Len(keys) : IsArrayIndex(keys[j])}}
    IN  SortedIndexKeys(indexKeys) \o Without(keys, indexKeys)

\* the property key an expression value is used as: String(value)
ToPropertyKey(value) == StringOf(value)

\* object[key] of any value that is not undefined or null
GetProperty(object, key) ==
    CASE object.t = "object" -> ObjGet(object.e, key)
      [] object.t = "array" ->
            IF key = <<"l", "e", "n", "g", "t", "h">> THEN IntNum(Len(object.e))
            ELSE IF IsArrayIndex(key) /\ DigitsToNat(key) < Len(object.e)
            THEN object.e[DigitsToNat(key) + 1]
            ELSE Undefined
      [] object.t = "string" ->
            IF key = <<"l", "e", "n", "g", "t", "h">> THEN IntNum(Len(object.v))
            ELSE IF IsArrayIndex(key) /\ DigitsToNat(key) < Len(object.v)
            THEN Str(<<object.v[DigitsToNat(key) + 1]>>)
            ELSE Undefined
      [] OTHER -> Undefined

RECURSIVE LooseEquals(_, _)
\* x == y
LooseEquals(x, y) ==
    LET reference == {"array", "object", "function"}
    IN  IF x.t = y.t THEN
            (IF x.t = "number" THEN NumEqual(x, y) ELSE x = y)
        ELSE IF x.t \in {"undefined", "null"} /\ y.t \in {"undefined", "null"} THEN TRUE
        ELSE IF x.t \in {"undefined", "null"} \/ y.t \in {"undefined", "null"} THEN FALSE
        ELSE IF x.t = "boolean" THEN LooseEquals(ToNumber(x), y)
        ELSE IF y.t = "boolean" THEN LooseEquals(x, ToNumber(y))
        ELSE IF x.t = "number" /\ y.t = "string" THEN NumEqual(x, ToNumber(y))
        ELSE IF x.t = "string" /\ y.t = "number" THEN NumEqual(ToNumber(x), y)
        ELSE IF x.t \in reference /\ y.t \in reference THEN FALSE
        ELSE IF x.t \in reference THEN LooseEquals(ToPrimitive(x), y)
        ELSE LooseEquals(x, ToPrimitive(y))

\* nx < ny of two numbers: "undefined" for a NaN operand
NumberLess(nx, ny) ==
    IF IsNaN(nx) \/ IsNaN(ny) THEN "undefined"
    ELSE IF NumLess(nx, ny) THEN "true" ELSE "false"

\* px < py of two primitive values
PrimitiveLess(px, py) ==
    IF px.t = "string" /\ py.t = "string"
    THEN (IF StringLess(px.v, py.v) THEN "true" ELSE "false")
    ELSE NumberLess(PrimitiveToNumber(px), PrimitiveToNumber(py))

\* the comparison behind < > <= >= : "true", "false" or "undefined" (a NaN operand)
AbstractLess(x, y) == PrimitiveLess(ToPrimitive(x), ToPrimitive(y))

\* pl + pr of two primitive values
PrimitivePlus(pl, pr) ==
    IF pl.t = "string" \/ pr.t = "string"
    THEN Str(StringOf(pl) \o StringOf(pr))
    ELSE NumAdd(PrimitiveToNumber(pl), PrimitiveToNumber(pr))

\* left + right
Plus(left, right) == PrimitivePlus(ToPrimitive(left), ToPrimitive(right))

---------------------------------------------------------------------------
(* Renderer.  Every rendering function takes the node, the data context it *)
(* is rendered with (node_data) and the state of the render (the error     *)
(* thrown so far, if any, and the trace of what was done), and gives the   *)
(* value it resolves to with the state after it.  A state that holds an    *)
(* error is passed on unchanged: the exception ends the render.            *)

\* thrown: whether the state holds an error
Rendered(v, st) == [thrown |-> st.error # NoError, v |-> v, st |-> st]

Thrown(st) == st.error # NoError

Throw(st, err) == IF Thrown(st) THEN st ELSE [st EXCEPT !.error = err]

Log(st, event) == IF Thrown(st) THEN st ELSE [st EXCEPT !.trace = Append(st.trace, event)]

TypeError(what) == [name |-> "TypeError", what |-> what]

\* node_data || input_data
Context(node_data) == IF ToBoolean(Obj(0, node_data)) THEN node_data ELSE input_data

\* is_path_absolute(path), for POSIX paths
is_path_absolute(path) == path # <<>> /\ path[1] = "/"

\* join_path(directory, path), for paths that need no normalising
join_path(directory, path) ==
    IF directory = <<>> THEN (IF path = <<>> THEN <<".">> ELSE path)
    ELSE IF path = <<>> THEN directory
    ELSE directory \o <<"/">> \o path

\* return_type(value)
return_type(value) == value.t

\* return_trimmed_string(value): value.replace(/\>\s+\</g, '><').replace(/\t|\n/g, '')
RECURSIVE ReplaceTagGaps(_)
ReplaceTagGaps(s) ==
    IF s = <<>> THEN <<>>
    ELSE LET gap == RunLength(s, 2, SpaceChars)
         IN  IF s[1] = ">" /\ gap > 0 /\ Len(s) >= gap + 2 /\ s[gap + 2] = "<"
             THEN <<">", "<">> \o ReplaceTagGaps(Slice(s, gap + 2))
             ELSE <<s[1]>> \o ReplaceTagGaps(Tail(s))

return_trimmed_string(value) == Without(ReplaceTagGaps(value), {"\t", "\n"})

\* the grave accent U+0060, a character that cannot be written between the quotes of a
\* string of this module: the character has this name for its one element
Backtick == "U+0060"

\* character_map of return_escaped_string
character_map(c) ==
    CASE c = "&" -> <<"&", "a", "m", "p", ";">>
      [] c = "<" -> <<"&", "l", "t", ";">>
      [] c = ">" -> <<"&", "g", "t", ";">>
      [] c = "\"" -> <<"&", "q", "u", "o", "t", ";">>
      [] c = "'" -> <<"&", "#", "3", "9", ";">>
      [] c = Backtick -> <<"&", "#", "x", "6", "0", ";">>
      [] c = "=" -> <<"&", "#", "x", "3", "D", ";">>
      [] c = "/" -> <<"&", "#", "x", "2", "F", ";">>
      [] OTHER -> <<c>>

\* value.replace() of return_escaped_string without the g of its regular expression: the
\* first of the characters is replaced
return_escaped_string_first(value) ==
    LET found == {i \in 1..Len(value) : character_map(value[i]) # <<value[i]>>}
    IN  IF found = {} THEN value
        ELSE SubSeq(value, 1, Min(found) - 1) \o character_map(value[Min(found)])
                \o SubSeq(value, Min(found) + 1, Len(value))

\* return_escaped_string(value)
return_escaped_string(value) == Concat([i \in 1..Len(value) |-> character_map(value[i])])

RECURSIVE return_flagged_value(_, _, _)
\* return_flagged_value(value, flags): the reduce over the flags; value.replace
\* exists only when the value is a string
return_flagged_value(value, flags, st) ==
    IF flags = <<>> \/ Thrown(st) THEN Rendered(value, st)
    ELSE IF Head(flags) \notin FlagChars THEN return_flagged_value(value, Tail(flags), st)
    ELSE IF value.t # "string"
    THEN Rendered(Undefined, Throw(st, TypeError("value.replace is not a function")))
    ELSE return_flagged_value(
            Str(IF Head(flags) = "!" THEN return_trimmed_string(value.v)
                ELSE return_escaped_string(value.v)),
            Tail(flags), st)

\* the functions a data context of the model may hold, by name
ApplyFunction(name, argument_list) ==
    CASE name = "first" -> (IF argument_list = <<>> THEN Undefined ELSE argument_list[1])
      [] OTHER -> Undefined

RECURSIVE render_node(_, _, _)
RECURSIVE render_nodes_loop(_, _, _)
RECURSIVE Renderer_ImportWithLoop(_, _, _)
RECURSIVE Renderer_ForLoop(_, _, _, _)

\* rendered_nodes.push(await render_node(node, node_data))
PushRendered(rendered_nodes, r) ==
    [thrown |-> r.thrown, v |-> Append(rendered_nodes.v, r.v), st |-> r.st]

\* the context a loop or an import has written into, were it not a copy: the object the
\* last loop iteration or the last import left
SharedContext(node_data, events) ==
    IF events = <<>> THEN node_data
    ELSE CASE events[Len(events)].ev = "For" -> events[Len(events)].block_input_data
           [] events[Len(events)].ev = "Import" -> events[Len(events)].import_data
           [] OTHER -> node_data

RECURSIVE render_nodes_loop_shared(_, _, _)
\* one turn of render_nodes over a context that For and Import write into
render_nodes_next_shared(node_list, node_data, pushed) ==
    render_nodes_loop_shared(Tail(node_list), SharedContext(node_data, pushed.st.trace), pushed)

\* render_nodes() over a context that For and Import write into, not a copy of it: the nodes
\* after a loop or an import are rendered with what it bound
render_nodes_loop_shared(node_list, node_data, rendered_nodes) ==
    IF node_list = <<>> \/ rendered_nodes.thrown THEN rendered_nodes
    ELSE render_nodes_next_shared(node_list, node_data,
            PushRendered(rendered_nodes, render_node(Head(node_list), node_data, rendered_nodes.st)))

\* the for ... of of render_nodes; rendered_nodes holds the values so far and the state
render_nodes_loop(node_list, node_data, rendered_nodes) ==
    IF node_list = <<>> \/ rendered_nodes.thrown THEN rendered_nodes
    ELSE render_nodes_loop(Tail(node_list), node_data,
            PushRendered(rendered_nodes, render_node(Head(node_list), node_data, rendered_nodes.st)))

\* the values of rendered nodes in the opposite order
ValuesReversed(rendered_nodes) ==
    [rendered_nodes EXCEPT !.v = [i \in 1..Len(rendered_nodes.v) |->
                                     rendered_nodes.v[Len(rendered_nodes.v) + 1 - i]]]

\* render_nodes() starting every node at once, the last one getting ahead: the nodes are
\* rendered from the last to the first and their values returned in the order of the list
render_nodes_last_first(node_list, node_data, st) ==
    ValuesReversed(
        render_nodes_loop([i \in 1..Len(node_list) |-> node_list[Len(node_list) + 1 - i]],
                          node_data, Rendered(<<>>, st)))

\* render_nodes(node_list, node_data): the values, in order
render_nodes(node_list, node_data, st) == render_nodes_loop(node_list, node_data, Rendered(<<>>, st))

\* rendered_nodes.join('')
JoinRendered(rendered_nodes) ==
    [thrown |-> rendered_nodes.thrown,
     v |-> Str(JoinWith(ArrayElementStrings(rendered_nodes.v), <<>>)),
     st |-> rendered_nodes.st]

Renderer_BlockList(node, node_data, st) == JoinRendered(render_nodes(node.nodes, node_data, st))

\* import_data[key] = value
SetImportData(import_data, key, value) ==
    [thrown |-> value.thrown, v |-> ObjSet(import_data.v, key, value.v), st |-> value.st]

\* the for ... of over node.statement.with rendering every value with the import's own data
Renderer_ImportWithLoop_import_data(with, import_context, import_data) ==
    IF with = <<>> \/ import_data.thrown THEN import_data
    ELSE Renderer_ImportWithLoop(Tail(with), import_context,
            SetImportData(import_data, Head(with).key,
                          render_node(Head(with).value, import_data.v, import_data.st)))

\* the for ... of over node.statement.with; import_data holds the object so far and the state
Renderer_ImportWithLoop(with, import_context, import_data) ==
    IF with = <<>> \/ import_data.thrown THEN import_data
    ELSE Renderer_ImportWithLoop(Tail(with), import_context,
            SetImportData(import_data, Head(with).key,
                          render_node(Head(with).value, import_context, import_data.st)))

\* what files holds for a file that exists and that the host does not let the program read
Unreadable == <<"PermissionDenied">>

\* Deno.readTextFile(path): the text of the file, or the rejection NotFound or PermissionDenied
readTextFile(path, st) ==
    LET read == Log(st, [ev |-> "readTextFile", path |-> path])
    IN  CASE ~ObjHas(files, path) ->
                Rendered(Undefined, Throw(read, [name |-> "NotFound", path |-> path]))
          [] ObjGet(files, path) = Unreadable ->
                Rendered(Undefined, Throw(read, [name |-> "PermissionDenied", path |-> path]))
          [] OTHER -> Rendered(Str(ObjGet(files, path)), read)

\* parse(imported_file) for the value Import found: a value without a length
\* (a number, a boolean, an object) has no tokens
parse_imported(imported_file) ==
    IF imported_file.t = "string" THEN Call("parse", <<imported_file.v>>)
    ELSE [node |-> [type |-> "BlockList", nodes |-> <<>>], error |-> NoError]

\* import_context[import_path] || (await Deno.readTextFile(import_path_prefixed))
Renderer_ImportedFile(import_context, import_path, st) ==
    LET found == ObjGet(import_context, ToPropertyKey(import_path))
    IN  IF ToBoolean(found) THEN Rendered(found, st)
        ELSE readTextFile(IF is_path_absolute(import_path.v) THEN import_path.v
                          ELSE join_path(input_settings.import_directory, import_path.v),
                          st)

\* return render_node(parse(imported_file), import_data), template being what parse() gave
Renderer_ImportRender(node, import_path, import_context, imported_file, import_data, template) ==
    IF template.error # NoError
    THEN Rendered(Undefined, Throw(import_data.st, template.error))
    ELSE render_node(template.node, import_data.v,
                     Log(import_data.st,
                         [ev |-> "Import", path |-> import_path,
                          source |-> imported_file.v,
                          with |-> node.statement.with,
                          import_context |-> import_context,
                          import_data |-> import_data.v]))

\* the try block of Import once the with pairs are evaluated: the file is parsed and rendered
Renderer_ImportWith(node, import_path, import_context, imported_file, import_data) ==
    IF import_data.thrown THEN Rendered(Undefined, import_data.st)
    ELSE Renderer_ImportRender(node, import_path, import_context, imported_file, import_data,
                               parse_imported(imported_file.v))

\* the try block of Import once the imported file is known: the with pairs are evaluated
Renderer_ImportTry(node, import_path, import_context, imported_file) ==
    Renderer_ImportWith(node, import_path, import_context, imported_file,
        Renderer_ImportWithLoop(node.statement.with, import_context,
                                Rendered(import_context, imported_file.st)))

\* the catch block of Import rewrapping every error, whatever its name
Renderer_ImportCatch_every(import_path, result) ==
    IF result.thrown
    THEN Rendered(Undefined,
                  [result.st EXCEPT !.error =
                      [name |-> "Error", what |-> "Imported file could not be found.",
                       path |-> import_path.v]])
    ELSE result

\* the catch block of Import
Renderer_ImportCatch(import_path, result) ==
    IF result.thrown /\ result.st.error.name = "NotFound"
    THEN Rendered(Undefined,
                  [result.st EXCEPT !.error =
                      [name |-> "Error", what |-> "Imported file could not be found.",
                       path |-> import_path.v]])
    ELSE result

\* Import() after the path is rendered
Renderer_ImportPath(node, node_data, import_path) ==
    CASE import_path.thrown -> Rendered(Undefined, import_path.st)
      [] import_path.v.t # "string" ->
            Rendered(Undefined, Throw(import_path.st, TypeError("Path must be a string")))
      [] OTHER ->
            Renderer_ImportCatch(
                import_path.v,
                Renderer_ImportTry(node, import_path.v, Context(node_data),
                                   Renderer_ImportedFile(Context(node_data), import_path.v,
                                                         import_path.st)))

Renderer_Import(node, node_data, st) ==
    Renderer_ImportPath(node, node_data, render_node(node.statement.path, node_data, st))

\* the iterator the switch of For builds for an iterator value: its [first, second] pairs,
\* or null (not iterable) for a value of any other type
Iterator(pairs) == [iterable |-> TRUE, pairs |-> pairs]

\* the pairs of a plain object as [value, key]
Renderer_ForIterator_value_key(iterator_value) ==
    LET iterator_type == return_type(iterator_value)
    IN  CASE iterator_type = "array" ->
                Iterator([i \in 1..Len(iterator_value.e) |-> <<iterator_value.e[i], IntNum(i - 1)>>])
          [] iterator_type = "string" ->
                Iterator([i \in 1..Len(iterator_value.v) |->
                            <<Str(<<iterator_value.v[i]>>), IntNum(i - 1)>>])
          [] iterator_type = "number" ->
                \* Array.from({ length: Math.abs(iterator_value) }): the length is truncated
                Iterator([i \in 1..(IF iterator_value.d = 0 THEN 0
                                    ELSE Abs(iterator_value.n) \div iterator_value.d)
                            |-> <<IntNum(i), IntNum(i - 1)>>])
          [] iterator_type = "object" ->
                Iterator([i \in 1..Len(ObjectKeys(iterator_value.e)) |->
                            <<ObjGet(iterator_value.e, ObjectKeys(iterator_value.e)[i]),
                              Str(ObjectKeys(iterator_value.e)[i])>>])
          [] OTHER -> [iterable |-> FALSE, pairs |-> <<>>]

Renderer_ForIterator(iterator_value) ==
    LET iterator_type == return_type(iterator_value)
    IN  CASE iterator_type = "array" ->
                Iterator([i \in 1..Len(iterator_value.e) |-> <<iterator_value.e[i], IntNum(i - 1)>>])
          [] iterator_type = "string" ->
                Iterator([i \in 1..Len(iterator_value.v) |->
                            <<Str(<<iterator_value.v[i]>>), IntNum(i - 1)>>])
          [] iterator_type = "number" ->
                \* Array.from({ length: Math.abs(iterator_value) }): the length is truncated
                Iterator([i \in 1..(IF iterator_value.d = 0 THEN 0
                                    ELSE Abs(iterator_value.n) \div iterator_value.d)
                            |-> <<IntNum(i), IntNum(i - 1)>>])
          [] iterator_type = "object" ->
                Iterator([i \in 1..Len(ObjectKeys(iterator_value.e)) |->
                            <<Str(ObjectKeys(iterator_value.e)[i]),
                              ObjGet(iterator_value.e, ObjectKeys(iterator_value.e)[i])>>])
          [] OTHER -> [iterable |-> FALSE, pairs |-> <<>>]

\* the context of one iteration: { ...input_data } with the identifiers bound
Renderer_ForBlockData(identifiers, pair) ==
    LET copy == input_data
        first == IF Len(identifiers) >= 1 /\ identifiers[1] # <<>>
                 THEN ObjSet(copy, identifiers[1], pair[1]) ELSE copy
    IN  IF Len(identifiers) >= 2 /\ identifiers[2] # <<>>
        THEN ObjSet(first, identifiers[2], pair[2]) ELSE first

\* await render_node(node.value, block_input_data)
Renderer_ForBody(node, node_data, pair, block_input_data, st) ==
    render_node(node.value, block_input_data,
                Log(st, [ev |-> "For", identifiers |-> node.statement.identifiers,
                         pair |-> pair,
                         node_data |-> node_data,
                         block_input_data |-> block_input_data]))

\* iterator_output += the rendered block
AppendOutput(iterator_output, body) ==
    [thrown |-> body.thrown, v |-> Str(iterator_output.v.v \o StringOf(body.v)), st |-> body.st]

\* the for ... of over the iterator; iterator_output holds the output so far and the state
Renderer_ForLoop(node, node_data, iterator, iterator_output) ==
    IF iterator = <<>> \/ iterator_output.thrown THEN iterator_output
    ELSE Renderer_ForLoop(node, node_data, Tail(iterator),
            AppendOutput(iterator_output,
                Renderer_ForBody(node, node_data, Head(iterator),
                                 Renderer_ForBlockData(node.statement.identifiers, Head(iterator)),
                                 iterator_output.st)))

\* if (iterator) { for ... return iterator_output } else { return '' }
Renderer_ForIterate(node, node_data, iterator, st) ==
    IF iterator.iterable
    THEN Renderer_ForLoop(node, node_data, iterator.pairs, Rendered(Str(<<>>), st))
    ELSE Rendered(Str(<<>>), st)

\* For() after the iterator is rendered
Renderer_ForValue(node, node_data, iterator_value) ==
    CASE iterator_value.thrown -> Rendered(Undefined, iterator_value.st)
      [] iterator_value.v.t = "number" /\ iterator_value.v.d = 0 /\ iterator_value.v.n # 0 ->
            Rendered(Undefined, Throw(iterator_value.st,
                                      [name |-> "RangeError", what |-> "Invalid array length"]))
      [] OTHER ->
            Renderer_ForIterate(node, node_data, Renderer_ForIterator(iterator_value.v),
                                iterator_value.st)

Renderer_For(node, node_data, st) ==
    Renderer_ForValue(node, node_data, render_node(node.statement.iterator, node_data, st))

\* If() after the test is rendered
\* If() taking every test value but undefined for true
Renderer_IfTest_defined(node, node_data, test) ==
    CASE test.thrown -> Rendered(Undefined, test.st)
      [] test.v # Undefined -> render_node(node.consequent, node_data, test.st)
      [] node.alternate # Null -> render_node(node.alternate, node_data, test.st)
      [] OTHER -> Rendered(Undefined, test.st)

Renderer_IfTest(node, node_data, test) ==
    CASE test.thrown -> Rendered(Undefined, test.st)
      [] ToBoolean(test.v) -> render_node(node.consequent, node_data, test.st)
      [] node.alternate # Null -> render_node(node.alternate, node_data, test.st)
      [] OTHER -> Rendered(Undefined, test.st)

Renderer_If(node, node_data, st) ==
    Renderer_IfTest(node, node_data, render_node(node.statement.test, node_data, st))

Renderer_Else(node, node_data, st) == render_node(node.value, node_data, st)

Renderer_CallExpression(node, node_data, st) ==
    LET callee == render_node(node.callee, node_data, st)
        argument_list == render_nodes(node.arguments, node_data, callee.st)
    IN  IF Thrown(argument_list.st) THEN Rendered(Undefined, argument_list.st)
        ELSE IF ~ToBoolean(callee.v) THEN Rendered(Undefined, argument_list.st)
        ELSE IF callee.v.t # "function"
        THEN Rendered(Undefined, Throw(argument_list.st, TypeError("callee is not a function")))
        ELSE Rendered(ApplyFunction(callee.v.name, argument_list.v),
                      Log(argument_list.st,
                          [ev |-> "call", name |-> callee.v.name, arguments |-> argument_list.v]))

\* MemberExpression() without its  if (!object) return undefined
Renderer_MemberExpression_unguarded(node, node_data, st) ==
    LET object == render_node(node.object, node_data, st)
    IN  IF Thrown(object.st) THEN Rendered(Undefined, object.st)
        ELSE IF object.v \in {Undefined, Null}
        THEN Rendered(Undefined,
                      Throw(object.st, TypeError("Cannot read properties of undefined")))
        ELSE Rendered(GetProperty(object.v, node.property.value), object.st)

Renderer_MemberExpression(node, node_data, st) ==
    LET object == render_node(node.object, node_data, st)
    IN  IF Thrown(object.st) \/ ~ToBoolean(object.v) THEN Rendered(Undefined, object.st)
        ELSE Rendered(GetProperty(object.v, node.property.value), object.st)

Renderer_MemberBracketExpression(node, node_data, st) ==
    LET object == render_node(node.object, node_data, st)
        property == render_node(node.property, node_data, object.st)
    IN  IF Thrown(property.st) \/ ~ToBoolean(object.v) THEN Rendered(Undefined, property.st)
        ELSE Rendered(GetProperty(object.v, ToPropertyKey(property.v)), property.st)

Renderer_ConditionalExpression(node, node_data, st) ==
    LET test == render_node(node.test, node_data, st)
    IN  IF Thrown(test.st) THEN Rendered(Undefined, test.st)
        ELSE IF ToBoolean(test.v) THEN render_node(node.consequent, node_data, test.st)
        ELSE render_node(node.alternate, node_data, test.st)

\* LogicalExpression() as the operators of the host evaluate: the right operand is rendered
\* only when the left one does not decide
Renderer_LogicalExpression_short(node, node_data, st) ==
    LET left == render_node(node.left, node_data, st)
    IN  IF Thrown(left.st) THEN Rendered(Undefined, left.st)
        ELSE IF ToBoolean(left.v) = (node.operator = <<"|", "|">>) THEN left
        ELSE render_node(node.right, node_data, left.st)

Renderer_LogicalExpression(node, node_data, st) ==
    LET left == render_node(node.left, node_data, st)
        right == render_node(node.right, node_data, left.st)
    IN  IF Thrown(right.st) THEN Rendered(Undefined, right.st)
        ELSE Rendered(
                CASE node.operator = <<"&", "&">> -> (IF ToBoolean(left.v) THEN right.v ELSE left.v)
                  [] node.operator = <<"|", "|">> -> (IF ToBoolean(left.v) THEN left.v ELSE right.v)
                  [] OTHER -> Undefined,
                right.st)

Renderer_BinaryExpression(node, node_data, st) ==
    LET l == render_node(node.left, node_data, st)
        r == render_node(node.right, node_data, l.st)
        left == l.v
        right == r.v
        operator == node.operator
    IN  IF Thrown(r.st) THEN Rendered(Undefined, r.st)
        ELSE Rendered(
                CASE operator = <<"!", "=">> -> Bool(~LooseEquals(left, right))
                  [] operator = <<"=", "=">> -> Bool(LooseEquals(left, right))
                  [] operator = <<"<", "=">> -> Bool(AbstractLess(right, left) = "false")
                  [] operator = <<">", "=">> -> Bool(AbstractLess(left, right) = "false")
                  [] operator = <<"<">> -> Bool(AbstractLess(left, right) = "true")
                  [] operator = <<">">> -> Bool(AbstractLess(right, left) = "true")
                  [] operator = <<"+">> -> Plus(left, right)
                  [] operator = <<"-">> -> NumSub(ToNumber(left), ToNumber(right))
                  [] operator = <<"*">> -> NumMul(ToNumber(left), ToNumber(right))
                  [] operator = <<"/">> -> NumDiv(ToNumber(left), ToNumber(right))
                  [] OTHER -> Str(<<>>),
                r.st)

Renderer_UnaryExpression(node, node_data, st) ==
    LET value == render_node(node.value, node_data, st)
    IN  IF Thrown(value.st) THEN Rendered(Undefined, value.st)
        ELSE Rendered(
                CASE node.operator = <<"!">> -> Bool(~ToBoolean(value.v))
                  [] node.operator = <<"-">> -> NumNeg(ToNumber(value.v))
                  [] OTHER -> Undefined,
                value.st)

Renderer_Identifier(node, node_data, st) ==
    Rendered(ObjGet(Context(node_data), node.value), st)

Renderer_Tag(node, node_data, st) ==
    LET value == render_node(node.value, node_data, st)
    IN  IF Thrown(value.st) THEN Rendered(Undefined, value.st)
        ELSE IF "flags" \in DOMAIN node THEN return_flagged_value(value.v, node.flags, value.st)
        ELSE value

Renderer_Text(node, st) ==
    IF "flags" \in DOMAIN node THEN return_flagged_value(Str(node.value), node.flags, st)
    ELSE Rendered(Str(node.value), st)

Renderer_Literal(node, st) == Rendered(node.value, st)

render_node(node, node_data, st) ==
    IF Thrown(st) THEN Rendered(Undefined, st)
    ELSE CASE node.type = "BlockList" -> Renderer_BlockList(node, node_data, st)
           [] node.type = "Import" -> Renderer_Import(node, node_data, st)
           [] node.type = "For" -> Renderer_For(node, node_data, st)
           [] node.type = "If" -> Renderer_If(node, node_data, st)
           [] node.type = "Else" -> Renderer_Else(node, node_data, st)
           [] node.type = "CallExpression" -> Renderer_CallExpression(node, node_data, st)
           [] node.type = "MemberExpression" -> Renderer_MemberExpression(node, node_data, st)
           [] node.type = "MemberBracketExpression" ->
                Renderer_MemberBracketExpression(node, node_data, st)
           [] node.type = "ConditionalExpression" ->
                Renderer_ConditionalExpression(node, node_data, st)
           [] node.type = "LogicalExpression" -> Renderer_LogicalExpression(node, node_data, st)
           [] node.type = "BinaryExpression" -> Renderer_BinaryExpression(node, node_data, st)
           [] node.type = "UnaryExpression" -> Renderer_UnaryExpression(node, node_data, st)
           [] node.type = "Identifier" -> Renderer_Identifier(node, node_data, st)
           [] node.type = "Tag" -> Renderer_Tag(node, node_data, st)
           [] node.type = "Text" -> Renderer_Text(node, st)
           [] node.type \in {"StringLiteral", "NumericLiteral", "BooleanLiteral", "NullLiteral"} ->
                Renderer_Literal(node, st)
           [] OTHER -> Rendered(Str(<<>>), st)

\* Renderer(input_template_parsed, input_data, input_settings).render()
Renderer_render(input_template_parsed) ==
    Renderer_BlockList(input_template_parsed, input_data, [error |-> NoError, trace |-> <<>>])

\* what render() leaves behind: the parsed template, the string returned, the error thrown
\* and the trace of the render
RenderResult(input_template_parsed, rendered) ==
    [parsed |-> input_template_parsed.node,
     output |-> IF Thrown(rendered.st) THEN Undefined ELSE rendered.v,
     error |-> rendered.st.error, trace |-> rendered.st.trace]

\* Renderer(parse(input_template), input_data, input_settings).render(), for the result of
\* parse(input_template)
RenderParsed(input_template_parsed) ==
    IF input_template_parsed.error # NoError
    THEN [parsed |-> Undefined, output |-> Undefined,
          error |-> input_template_parsed.error, trace |-> <<>>]
    ELSE RenderResult(input_template_parsed, Renderer_render(input_template_parsed.node))

\* render(input_template, input_data, input_settings)
render(template) == RenderParsed(Call("parse", <<template>>))

---------------------------------------------------------------------------
\* The functions that are called by name: the expression parser hands its methods to
\* BinaryExpression(expression_method, token_type) as values, and the renderer calls parse()
Call(method, args) ==
    CASE method = "advance" -> advance(args[1], args[2])
      [] method = "Tokenizer" -> Tokenizer(args[1], args[2], args[3])
      [] method = "UnaryExpression" -> UnaryExpression(args[1])
      [] method = "MultiExpression" -> MultiExpression(args[1])
      [] method = "AddExpression" -> AddExpression(args[1])
      [] method = "RelationalExpression" -> RelationalExpression(args[1])
      [] method = "EqualityExpression" -> EqualityExpression(args[1])
      [] method = "AndExpression" -> AndExpression(args[1])
      [] method = "Expression" -> Expression(args[1])
      [] method = "parse_token" -> parse_token(args[1], args[2])
      [] method = "parse" -> parse(args[1])
      [] method = "render" -> render(args[1])

---------------------------------------------------------------------------
(* The inputs of the model: templates, data objects and files *)

\* a value that stands for "the data object has no such key" while the inputs are built
Absent == [t |-> "absent"]

\* the data object { k1: v1, k2: v2, ... } of the pairs whose value is not Absent
Data(pairs) == SelectSeq(pairs, LAMBDA pair : pair[2] # Absent)

Scenario(template, data, fs) == [template |-> template, data |-> data, files |-> fs]

\* the separators put after a block-opening tag: nothing (the block on one line) or a line break
Separators == {<<>>, <<"\n">>}

\* the values a test identifier is given
TestValues == {Absent, Null, Bool(TRUE), Bool(FALSE), IntNum(0), IntNum(1), Str(<<>>), Str(<<"x">>)}

TagOf(expression) == <<"{">> \o expression \o <<"}">>

IfTag(test) == TagOf(kw_if \o <<" ">> \o test)

ElseIfTag(test) == TagOf(kw_else_if \o <<" ">> \o test)

ElseTag == TagOf(kw_else)

EndIfTag == TagOf(<<"/">> \o kw_if)

ForTag(identifiers, iterator) ==
    TagOf(kw_for \o <<" ">> \o identifiers \o <<" ">> \o kw_in \o <<" ">> \o iterator)

EndForTag == TagOf(<<"/">> \o kw_for)

\* {if a}A{else if b}B{else}C{/if}, {if a}A{else}B{/if} and {if a}A{/if}
IfChainTemplate(branches, sep) ==
    CASE branches = 3 ->
            IfTag(<<"a">>) \o sep \o <<"A">> \o ElseIfTag(<<"b">>) \o sep \o <<"B">>
                \o ElseTag \o <<"C">> \o EndIfTag
      [] branches = 2 -> IfTag(<<"a">>) \o sep \o <<"A">> \o ElseTag \o <<"B">> \o EndIfTag
      [] branches = 1 -> IfTag(<<"a">>) \o sep \o <<"A">> \o EndIfTag

IfChainScenarios ==
    {Scenario(IfChainTemplate(3, sep), Data(<< <<<<"a">>, a>>, <<<<"b">>, b>> >>), <<>>) :
        sep \in Separators, a \in TestValues, b \in TestValues}
    \cup
    {Scenario(IfChainTemplate(n, sep), Data(<< <<<<"a">>, a>> >>), <<>>) :
        n \in {1, 2}, sep \in Separators, a \in TestValues}

\* the values the iterator xs of a loop is given: arrays, strings, numbers, plain objects
\* (with their keys in insertion order) and values that cannot be iterated
IteratorValues ==
    {Arr(1, <<IntNum(10), IntNum(20), IntNum(30)>>), Arr(1, <<>>), Arr(1, <<Str(<<"x">>), Null>>),
     Str(<<"a", "b">>), Str(<<>>), Num(5, 2),
     Obj(2, << <<<<"b">>, IntNum(1)>>, <<<<"a">>, IntNum(2)>> >>),
     Obj(2, << <<<<"b">>, IntNum(1)>>, <<<<"1">>, Str(<<"x">>)>> >>),
     Obj(2, <<>>),
     Bool(TRUE), Null, Absent}
    \cup {IntNum(k) : k \in -MaxCount..MaxCount}

\* {for v, i in xs}{i}:{v};{/for} and {for v in xs}{v};{/for}
ForTemplate(identifiers, sep) ==
    CASE identifiers = 2 ->
            ForTag(<<"v", ",", " ", "i">>, <<"x", "s">>) \o sep
                \o TagOf(<<"i">>) \o <<":">> \o TagOf(<<"v">>) \o <<";">> \o EndForTag
      [] identifiers = 1 ->
            ForTag(<<"v">>, <<"x", "s">>) \o sep \o TagOf(<<"v">>) \o <<";">> \o EndForTag

\* {for n, i in 3}{n}-{i};{/for}
ForCountTemplate(count, sep) ==
    ForTag(<<"n", ",", " ", "i">>, NatToDigits(count)) \o sep
        \o TagOf(<<"n">>) \o <<"-">> \o TagOf(<<"i">>) \o <<";">> \o EndForTag

\* {for a in xs}{for b in ys}{a}{b};{/for}{/for}
NestedForTemplate(sep) ==
    ForTag(<<"a">>, <<"x", "s">>) \o sep \o ForTag(<<"b">>, <<"y", "s">>) \o sep
        \o TagOf(<<"a">>) \o TagOf(<<"b">>) \o <<";">> \o EndForTag \o EndForTag

ForScenarios ==
    {Scenario(ForTemplate(n, sep), Data(<< <<<<"x", "s">>, xs>> >>), <<>>) :
        n \in {1, 2}, sep \in Separators, xs \in IteratorValues}
    \cup
    {Scenario(ForCountTemplate(count, sep), <<>>, <<>>) : count \in 0..MaxCount, sep \in Separators}
    \cup
    {Scenario(NestedForTemplate(sep),
              Data(<< <<<<"x", "s">>, xs>>, <<<<"y", "s">>, Str(<<"u", "v">>)>>,
                      <<<<"k">>, IntNum(7)>> >>),
              <<>>) :
        sep \in Separators, xs \in {Arr(1, <<IntNum(1), IntNum(2)>>), IntNum(2), Str(<<"a">>)}}

\* the templates an import finds, in the data object or in a file
ImportedTags == <<"[", "{", "k", "}", "{", "j", "}", "{", "w", "}", "]">>

ImportedLoop == <<"{", "f", "o", "r", " ", "v", " ", "i", "n", " ", "x", "s", "}", "\n", "{", "v", "}", "{", "k", "}", ";", "{", "/", "f", "o", "r", "}">>

ImportedItem == <<"{", "f", "}", "{", "n", "}", "{", "w", "}", ";">>

ImportedFile == <<"F", "{", "k", "}">>

ImportedSources == {Str(<<>>), Str(<<"T">>), Str(ImportedTags), Str(ImportedLoop)}

\* the with lists of the import tags: none, an argument that names another one, a key given
\* twice, and an argument that names a key of the importing context which a later one rewrites
WithLists ==
    {<<>>,
     <<" ", "w", "i", "t", "h", " ", "(", "k", ":", " ", "1", ",", " ", "j", ":", " ", "k", ")">>,
     <<" ", "w", "i", "t", "h", " ", "(", "k", ":", " ", "1", ",", " ", "k", ":", " ", "2", ")">>,
     <<" ", "w", "i", "t", "h", " ", "(", "j", ":", " ", "w", ",", " ", "w", ":", " ", "5", ")">>}

\* {import 'p' ...} and, as the README writes it, { import 'p' ... }
ImportTag(spaced, with) ==
    IF spaced THEN TagOf(<<" ">> \o kw_import \o <<" ", "'", "p", "'">> \o with \o <<" ">>)
    ELSE TagOf(kw_import \o <<" ", "'", "p", "'">> \o with)

\* {for f in xs}{import 'q' with (n: f + 1)}{/for}, the tags on lines of their own
ImportInLoopTemplate ==
    ForTag(<<"f">>, <<"x", "s">>) \o <<"\n">>
        \o TagOf(kw_import \o <<" ", "'", "q", "'", " ", "w", "i", "t", "h", " ", "(", "n", ":", " ", "f", " ", "+", " ", "1", ")">>)
        \o <<"\n">> \o EndForTag

ImportScenarios ==
    {Scenario(ImportTag(spaced, with),
              Data(<< <<<<"p">>, p>>, <<<<"k">>, k>>, <<<<"w">>, Str(<<"w">>)>>,
                      <<<<"x", "s">>, Arr(1, <<IntNum(1), IntNum(2)>>)>> >>),
              fs) :
        spaced \in BOOLEAN, with \in WithLists, p \in ImportedSources \cup {Absent},
        k \in {Absent, IntNum(9)}, fs \in {<<>>, << <<<<"p">>, ImportedFile>> >>}}
    \cup
    {Scenario(ImportInLoopTemplate,
              Data(<< <<<<"q">>, q>>, <<<<"w">>, Str(<<"w">>)>>, <<<<"x", "s">>, xs>> >>),
              << <<<<"q">>, ImportedFile>> >>) :
        q \in {Str(ImportedItem), Absent}, xs \in {Arr(1, <<IntNum(1), IntNum(2)>>), Str(<<"a", "b">>)}}

\* the binary operators of the expression grammar, two of each level
BinaryOperators ==
    {<<"*">>, <<"/">>, <<"+">>, <<"-">>, <<"<">>, <<">", "=">>, <<"=", "=">>, <<"!", "=">>}

\* the operands of a chain of operators: 1, 2, 3, ...
Operand(i) == NatToDigits(i)

\* the chains  1 op 2 op 3 ...  of n operators, as lists of words
RECURSIVE ExpressionChains(_)
ExpressionChains(n) ==
    IF n = 1 THEN {<<Operand(1), operator, Operand(2)>> : operator \in BinaryOperators}
    ELSE {chain \o <<operator, Operand(n + 1)>> :
            chain \in ExpressionChains(n - 1), operator \in BinaryOperators}

\* 2 + 2, 8 - 4 - 2, 2 + 2 == 4 ? 'Yes' : 'No' (README), 1 ? 2 : 0 ? 3 : 4, 0 ? 1 : 0 ? 2 : 3
\* and 1 < 2 ? 1 + 1 : 2 * 3
ExpressionExamples ==
    {<< <<"2">>, <<"+">>, <<"2">> >>,
     << <<"8">>, <<"-">>, <<"4">>, <<"-">>, <<"2">> >>,
     << <<"2">>, <<"+">>, <<"2">>, <<"=", "=">>, <<"4">>, <<"?">>, <<"'", "Y", "e", "s", "'">>,
        <<":">>, <<"'", "N", "o", "'">> >>,
     << <<"1">>, <<"?">>, <<"2">>, <<":">>, <<"0">>, <<"?">>, <<"3">>, <<":">>, <<"4">> >>,
     << <<"0">>, <<"?">>, <<"1">>, <<":">>, <<"0">>, <<"?">>, <<"2">>, <<":">>, <<"3">> >>,
     << <<"1">>, <<"<">>, <<"2">>, <<"?">>, <<"1">>, <<"+">>, <<"1">>, <<":">>, <<"2">>,
        <<"*">>, <<"3">> >>}

\* {word word ...}
ExpressionTemplate(words) == TagOf(JoinWith(words, <<" ">>))

\* a || b && c and a && b || c
LogicalExpressions ==
    {<< <<"a">>, <<"|", "|">>, <<"b">>, <<"&", "&">>, <<"c">> >>,
     << <<"a">>, <<"&", "&">>, <<"b">>, <<"|", "|">>, <<"c">> >>}

\* the values the operands a, b and c are given
LogicalValues == {Bool(TRUE), Bool(FALSE), IntNum(0), IntNum(2)}

ExpressionScenarios ==
    {Scenario(ExpressionTemplate(words), <<>>, <<>>) :
        words \in ExpressionExamples \cup UNION {ExpressionChains(n) : n \in 1..MaxOperators}}
    \cup
    {Scenario(ExpressionTemplate(words),
              Data(<< <<<<"a">>, a>>, <<<<"b">>, b>>, <<<<"c">>, c>> >>), <<>>) :
        words \in LogicalExpressions, a \in LogicalValues, b \in LogicalValues,
        c \in LogicalValues}

\* .key and ['key']
DotAccess(key) == <<".">> \o key

BracketAccess(key) == <<"[", "'">> \o key \o <<"'", "]">>

\* the paths of the member tags: the keys looked up in turn, with the template that does it
MemberPaths ==
    {[keys |-> << <<"a">> >>, template |-> TagOf(<<"a">>)],
     [keys |-> << <<"a">>, <<"b">> >>, template |-> TagOf(<<"a">> \o DotAccess(<<"b">>))],
     [keys |-> << <<"a">>, <<"b">> >>, template |-> TagOf(<<"a">> \o BracketAccess(<<"b">>))],
     [keys |-> << <<"a">>, <<"b">>, <<"c">> >>,
      template |-> TagOf(<<"a">> \o DotAccess(<<"b">>) \o DotAccess(<<"c">>))],
     [keys |-> << <<"a">>, <<"b">>, <<"c">> >>,
      template |-> TagOf(<<"a">> \o BracketAccess(<<"b">>) \o BracketAccess(<<"c">>))],
     [keys |-> << <<"a">>, <<"b">>, <<"c">> >>,
      template |-> TagOf(<<"a">> \o DotAccess(<<"b">>) \o BracketAccess(<<"c">>))],
     [keys |-> << <<"a">>, <<"b">>, <<"c">> >>,
      template |-> TagOf(<<"a">> \o BracketAccess(<<"b">>) \o DotAccess(<<"c">>))]}

\* the values the object a of a member tag is given
MemberValues ==
    {Absent, Null, IntNum(0), Str(<<"x">>), Obj(3, <<>>),
     Obj(3, << <<<<"b">>, Null>> >>),
     Obj(3, << <<<<"b">>, Str(<<"s">>)>> >>),
     Obj(3, << <<<<"b">>, Obj(4, << <<<<"c">>, IntNum(5)>> >>)>> >>),
     Obj(3, << <<<<"b">>, Obj(4, << <<<<"c">>, Null>> >>)>> >>)}

MemberScenarios ==
    {Scenario(path.template, Data(<< <<<<"a">>, a>> >>), <<>>) :
        path \in MemberPaths, a \in MemberValues}

\* templates that end inside a block: the block whose closing tag is looked for first when
\* the input ends is named by missing.  The blocks that hold another block have their tags
\* on lines of their own
UnclosedBlocks ==
    {[template |-> IfTag(<<"a">>), missing |-> "if"],
     [template |-> IfTag(<<"a">>) \o <<"x">>, missing |-> "if"],
     [template |-> IfTag(<<"a">>) \o <<"\n">> \o TagOf(<<"b">>) \o <<"\n">>, missing |-> "if"],
     [template |-> IfTag(<<"a">>) \o <<"\n", "A">> \o ElseTag \o <<"\n", "B">>, missing |-> "if"],
     [template |-> IfTag(<<"a">>) \o <<"\n", "A">> \o ElseIfTag(<<"b">>) \o <<"\n", "B">>,
      missing |-> "if"],
     [template |-> IfTag(<<"a">>) \o TagOf(<<"b">>), missing |-> "if"],
     [template |-> ForTag(<<"v">>, <<"x", "s">>), missing |-> "for"],
     [template |-> ForTag(<<"v">>, <<"x", "s">>) \o <<"\n">> \o TagOf(<<"v">>) \o <<";">>,
      missing |-> "for"],
     [template |-> ForTag(<<"v">>, <<"x", "s">>) \o TagOf(<<"v">>) \o <<";">>, missing |-> "for"],
     [template |-> ForTag(<<"v">>, <<"x", "s">>) \o <<"\n">> \o IfTag(<<"v">>) \o <<"\n", "x">>,
      missing |-> "if"],
     [template |-> IfTag(<<"a">>) \o <<"\n">> \o ForTag(<<"v">>, <<"x", "s">>) \o <<"\n", "x">>,
      missing |-> "for"],
     [template |-> IfTag(<<"a">>) \o <<"\n">> \o ForTag(<<"v">>, <<"x", "s">>) \o <<"\n", "x">>
                       \o EndForTag \o <<"\n">>,
      missing |-> "if"],
     [template |-> ForTag(<<"v">>, <<"x", "s">>) \o <<"\n">> \o IfTag(<<"v">>) \o <<"\n", "x">>
                       \o EndIfTag \o <<"\n">>,
      missing |-> "for"]}

\* a block left open inside a block that is closed: {for v in xs}..{if v}..x{/for}  and
\* {if a}..{for v in xs}..x{/if}
MisclosedBlocks ==
    {ForTag(<<"v">>, <<"x", "s">>) \o <<"\n">> \o IfTag(<<"v">>) \o <<"\n", "x">> \o EndForTag,
     IfTag(<<"a">>) \o <<"\n">> \o ForTag(<<"v">>, <<"x", "s">>) \o <<"\n", "x">> \o EndIfTag}

UnclosedScenarios ==
    {Scenario(block.template, Data(<< <<<<"a">>, a>>, <<<<"x", "s">>, xs>> >>), <<>>) :
        block \in UnclosedBlocks, a \in {Absent, Bool(TRUE)}, xs \in {Absent, Str(<<"u", "v">>)}}
    \cup {Scenario(template, <<>>, <<>>) : template \in MisclosedBlocks}

\* tags whose content is not one expression: tokens after a complete expression ({a b},
\* {1 2}, {1 )}, {a b 2}), an expression that ends early ({2 +}, {(1}) and a character that
\* starts no token after an expression ({a @})
MalformedTags ==
    {TagOf(<<"a", " ", "b">>), TagOf(<<"1", " ", "2">>), TagOf(<<"1", " ", ")">>),
     TagOf(<<"a", " ", "b", " ", "2">>),
     TagOf(<<"2", " ", "+">>), TagOf(<<"(", "1">>),
     TagOf(<<"a", " ", "@">>)}

MalformedScenarios ==
    {Scenario(<<"<">> \o template \o <<">">>, Data(<< <<<<"a">>, a>>, <<<<"b">>, b>> >>), <<>>) :
        template \in MalformedTags, a \in {Absent, Str(<<"x">>)}, b \in {Absent, IntNum(7)}}

\* A{import 'p'}B
ImportBetweenTextTemplate == <<"A">> \o ImportTag(FALSE, <<>>) \o <<"B">>

\* the error of an import whose file the loader does not find
ImportNotFound(path) ==
    [name |-> "Error", what |-> "Imported file could not be found.", path |-> path]

\* imports that fail, with the error render() is to throw: the file p is missing; p cannot be
\* read; p does not parse; p imports a missing file q; p calls a string; the template p of
\* the data object does not parse; and the template p of the data object imports a missing q
ImportFailures ==
    {[data |-> <<>>, files |-> <<>>, expected |-> ImportNotFound(<<"p">>)],
     [data |-> <<>>, files |-> << <<<<"p">>, Unreadable>> >>,
      expected |-> [name |-> "PermissionDenied", path |-> <<"p">>]],
     [data |-> <<>>, files |-> << <<<<"p">>, <<"x", "\n">> \o IfTag(<<"a">>) \o <<"\n", "y">> >> >>,
      expected |-> NanoError("Missing {/if} closing tag", <<>>, 3)],
     [data |-> <<>>,
      files |-> << <<<<"p">>, <<"x">> \o TagOf(kw_import \o <<" ", "'", "q", "'">>)>> >>,
      expected |-> ImportNotFound(<<"q">>)],
     [data |-> << <<<<"a">>, Str(<<"s">>)>> >>,
      files |-> << <<<<"p">>, <<"x">> \o TagOf(<<"a", "(", ")">>)>> >>,
      expected |-> TypeError("callee is not a function")],
     [data |-> << <<<<"p">>, Str(<<"x">> \o TagOf(<<"2", " ", "+">>))>> >>,
      files |-> <<>>,
      expected |-> NanoError("Unknown tag", <<"+">>, 1)],
     [data |-> << <<<<"p">>, Str(<<"x">> \o TagOf(kw_import \o <<" ", "'", "q", "'">>))>> >>,
      files |-> << <<<<"p">>, ImportedFile>> >>,
      expected |-> ImportNotFound(<<"q">>)]}

\* the failing imports, and two that succeed: a file and a template of the data object
ImportFailureScenarios ==
    {Scenario(ImportBetweenTextTemplate, failure.data, failure.files) : failure \in ImportFailures}
    \cup {Scenario(ImportBetweenTextTemplate, <<>>, << <<<<"p">>, ImportedFile>> >>),
          Scenario(ImportBetweenTextTemplate, << <<<<"p">>, Str(<<"T">>)>> >>, <<>>)}

\* <{f(b, 2)}>
CallTemplate == <<"<">> \o TagOf(<<"f", "(", "b", ",", " ", "2", ")">>) \o <<">">>

\* the values the callee f is given: a function, and values that cannot be called
CalleeValues ==
    {Fn("first"), Absent, Null, Str(<<>>), Str(<<"s">>), IntNum(0), IntNum(3), Bool(FALSE),
     Bool(TRUE), Obj(5, <<>>), Obj(5, << <<<<"k">>, IntNum(1)>> >>)}

CallScenarios ==
    {Scenario(CallTemplate, Data(<< <<<<"f">>, f>>, <<<<"b">>, b>> >>), <<>>) :
        f \in CalleeValues, b \in {Absent, Str(<<"y">>), IntNum(4)}}

\* the flags a tag is written with: none, #, !, #! and !#
FlagLists == {<<>>, <<"#">>, <<"!">>, <<"#", "!">>, <<"!", "#">>}

\* <{#x}>, the tag of x with the given flags between two characters of text
FlaggedTemplate(flags) == <<"<">> \o TagOf(flags \o <<"x">>) \o <<">">>

\* the values x is given: numbers, booleans, null, nothing, and strings
FlaggedValues ==
    {Absent, Null, IntNum(0), IntNum(5), Num(3, 2), Bool(TRUE), Bool(FALSE),
     Str(<<>>), Str(<<"a", "<", "b">>), Str(<<">", " ", "\n", "<", "\t", "=">>)}

FlagScenarios ==
    {Scenario(FlaggedTemplate(flags), Data(<< <<<<"x">>, x>> >>), <<>>) :
        flags \in FlagLists, x \in FlaggedValues}

\* the eight characters the # flag escapes, and four it leaves alone
EscapedChars == {"&", "<", ">", "\"", "'", Backtick, "=", "/"}

PlainChars == {"a", " ", ";", "#"}

\* the strings html is given: every string of up to two of these characters, <i>, and
\* <a href="x">T&C</a>
EscapeStrings ==
    {<<>>, <<"<", "i", ">">>,
     <<"<", "a", " ", "h", "r", "e", "f", "=", "\"", "x", "\"", ">", "T", "&", "C", "<", "/",
       "a", ">">>}
    \cup {<<c>> : c \in EscapedChars \cup PlainChars}
    \cup {<<c, d>> : c \in EscapedChars \cup PlainChars, d \in EscapedChars \cup PlainChars}

\* {#html}
EscapeTemplate == TagOf(<<"#", "h", "t", "m", "l">>)

EscapeScenarios ==
    {Scenario(EscapeTemplate, Data(<< <<<<"h", "t", "m", "l">>, Str(html)>> >>), <<>>) :
        html \in EscapeStrings}

\* regions of script and style: <script>var o = {a};</script>, <style>p {color: red}</style>,
\* <script type="x">{if a}</script>, and a style sheet of three lines with .c {a} on its
\* second line
PlainRegions ==
    {<<"<", "s", "c", "r", "i", "p", "t", ">", "v", "a", "r", " ", "o", " ", "=", " ", "{",
       "a", "}", ";", "<", "/", "s", "c", "r", "i", "p", "t", ">">>,
     <<"<", "s", "t", "y", "l", "e", ">", "p", " ", "{", "c", "o", "l", "o", "r", ":", " ",
       "r", "e", "d", "}", "<", "/", "s", "t", "y", "l", "e", ">">>,
     <<"<", "s", "c", "r", "i", "p", "t", " ", "t", "y", "p", "e", "=", "\"", "x", "\"", ">",
       "{", "i", "f", " ", "a", "}", "<", "/", "s", "c", "r", "i", "p", "t", ">">>,
     <<"<", "s", "t", "y", "l", "e", ">", "\n", ".", "c", " ", "{", "a", "}", "\n", "<", "/",
       "s", "t", "y", "l", "e", ">">>}

\* a region whose opening tag goes over two lines, <style(line break)x>{a}</style>, and a
\* script that holds the closing tag of a style in a string, <script>'</style>'+{a}</script>
OddRegions ==
    {<<"<", "s", "t", "y", "l", "e", "\n", "x", ">", "{", "a", "}", "<", "/", "s", "t", "y",
       "l", "e", ">">>,
     <<"<", "s", "c", "r", "i", "p", "t", ">", "'", "<", "/", "s", "t", "y", "l", "e", ">",
       "'", "+", "{", "a", "}", "<", "/", "s", "c", "r", "i", "p", "t", ">">>}

\* {a}region{a}
RegionTemplate(region) == TagOf(<<"a">>) \o region \o TagOf(<<"a">>)

RegionScenarios ==
    {Scenario(RegionTemplate(region), Data(<< <<<<"a">>, a>> >>), <<>>) :
        region \in PlainRegions \cup OddRegions, a \in {Absent, Str(<<"V">>), IntNum(7)}}

\* comments: <!-- c -->, <!--{a}-->, <!--{f(a)}-->, <!--{import 'p'}-->, a comment of three
\* lines with {if a} on its second line, and <!---->
Comments ==
    {<<"<", "!", "-", "-", " ", "c", " ", "-", "-", ">">>,
     <<"<", "!", "-", "-", "{", "a", "}", "-", "-", ">">>,
     <<"<", "!", "-", "-", "{", "f", "(", "a", ")", "}", "-", "-", ">">>,
     <<"<", "!", "-", "-", "{", "i", "m", "p", "o", "r", "t", " ", "'", "p", "'", "}", "-",
       "-", ">">>,
     <<"<", "!", "-", "-", "\n", "{", "i", "f", " ", "a", "}", "\n", "-", "-", ">">>,
     <<"<", "!", "-", "-", "-", "-", ">">>}

\* {a}A comment B{a}
CommentTemplate(comment) == TagOf(<<"a">>) \o <<"A">> \o comment \o <<"B">> \o TagOf(<<"a">>)

CommentScenarios ==
    {Scenario(CommentTemplate(comment),
              Data(<< <<<<"a">>, a>>, <<<<"f">>, Fn("first")>> >>),
              << <<<<"p">>, ImportedFile>> >>) :
        comment \in Comments, a \in {Absent, Str(<<"V">>), IntNum(7)}}

\* literals with the text each is to render: strings in double and in single quotes, the
\* empty string, strings that hold the other quote and an opening brace, numbers (1.50 and
\* 007 are the numbers 1.5 and 7), a number between spaces, true, false and null
Literals ==
    {[literal |-> <<"\"", "t", "e", "x", "t", "\"">>,
      text |-> <<"t", "e", "x", "t">>],
     [literal |-> <<"'", "t", "e", "x", "t", "'">>,
      text |-> <<"t", "e", "x", "t">>],
     [literal |-> <<"\"", "\"">>,
      text |-> <<>>],
     [literal |-> <<"\"", "i", "t", "'", "s", "\"">>,
      text |-> <<"i", "t", "'", "s">>],
     [literal |-> <<"'", "a", " ", "\"", "b", "\"", " ", "{", "c", "'">>,
      text |-> <<"a", " ", "\"", "b", "\"", " ", "{", "c">>],
     [literal |-> <<"4", "2">>,
      text |-> <<"4", "2">>],
     [literal |-> <<"0">>,
      text |-> <<"0">>],
     [literal |-> <<"1", ".", "5">>,
      text |-> <<"1", ".", "5">>],
     [literal |-> <<"1", ".", "5", "0">>,
      text |-> <<"1", ".", "5">>],
     [literal |-> <<"0", "0", "7">>,
      text |-> <<"7">>],
     [literal |-> <<" ", "4", "2", " ">>,
      text |-> <<"4", "2">>],
     [literal |-> <<"t", "r", "u", "e">>,
      text |-> <<"t", "r", "u", "e">>],
     [literal |-> <<"f", "a", "l", "s", "e">>,
      text |-> <<"f", "a", "l", "s", "e">>],
     [literal |-> <<"n", "u", "l", "l">>,
      text |-> <<>>]}

\* [{literal}]
LiteralTemplate(literal) == <<"[">> \o TagOf(literal) \o <<"]">>

\* the data contexts of the literal tags: nothing, and values under the names true, false,
\* null, text and 42
LiteralContexts ==
    {<<>>,
     << <<<<"t", "r", "u", "e">>, Str(<<"X">>)>>, <<<<"f", "a", "l", "s", "e">>, IntNum(1)>>,
        <<<<"n", "u", "l", "l">>, Str(<<"Y">>)>>, <<<<"t", "e", "x", "t">>, Str(<<"Z">>)>>,
        <<<<"4", "2">>, Str(<<"W">>)>> >>}

\* the literal tags, and the tag {"a}b"} whose string holds a closing brace
LiteralScenarios ==
    {Scenario(LiteralTemplate(row.literal), data, <<>>) : row \in Literals, data \in LiteralContexts}
    \cup {Scenario(LiteralTemplate(<<"\"", "a", "}", "b", "\"">>), <<>>, <<>>)}

\* a loop over v, an import with the argument k, a loop over w, and the tags of v, k and w:
\* {for v in xs}(line break){v};{/for}{import 'p' with (k: v)}(line break)
\* {for w in xs}(line break){w}{k};{/for}[{v}{k}{w}]
FrameTemplate ==
    <<"{", "f", "o", "r", " ", "v", " ", "i", "n", " ", "x", "s", "}", "\n", "{", "v", "}",
      ";", "{", "/", "f", "o", "r", "}", "{", "i", "m", "p", "o", "r", "t", " ", "'", "p", "'",
      " ", "w", "i", "t", "h", " ", "(", "k", ":", " ", "v", ")", "}", "\n", "{", "f", "o",
      "r", " ", "w", " ", "i", "n", " ", "x", "s", "}", "\n", "{", "w", "}", "{", "k", "}",
      ";", "{", "/", "f", "o", "r", "}", "[", "{", "v", "}", "{", "k", "}", "{", "w", "}", "]">>

\* the template p of the data object: <{k}{v}>
FrameImported == <<"<", "{", "k", "}", "{", "v", "}", ">">>

FrameScenarios ==
    {Scenario(FrameTemplate,
              Data(<< <<<<"v">>, v>>, <<<<"k">>, k>>, <<<<"p">>, Str(FrameImported)>>,
                      <<<<"x", "s">>, xs>> >>),
              <<>>) :
        v \in {Absent, Str(<<"D">>)}, k \in {Absent, Str(<<"K">>)},
        xs \in {Arr(1, <<IntNum(1), IntNum(2)>>), Str(<<"a">>), Arr(1, <<>>)}}

\* a call, a loop whose body imports a file with a call in its argument, and a call with
\* calls as arguments:
\* {f(1)}{for v in xs}(line break){import 'q' with (n: g(v))}(line break){/for}{f(g(2), h(3))}
OrderTemplate ==
    <<"{", "f", "(", "1", ")", "}", "{", "f", "o", "r", " ", "v", " ", "i", "n", " ", "x", "s",
      "}", "\n", "{", "i", "m", "p", "o", "r", "t", " ", "'", "q", "'", " ", "w", "i", "t",
      "h", " ", "(", "n", ":", " ", "g", "(", "v", ")", ")", "}", "\n", "{", "/", "f", "o",
      "r", "}", "{", "f", "(", "g", "(", "2", ")", ",", " ", "h", "(", "3", ")", ")", "}">>

\* the file q: <{h(n)}>
OrderImported == <<"<", "{", "h", "(", "n", ")", "}", ">">>

\* f, g and h are the function that returns its first argument
OrderScenarios ==
    {Scenario(OrderTemplate,
              Data(<< <<<<"f">>, Fn("first")>>, <<<<"g">>, Fn("first")>>, <<<<"h">>, Fn("first")>>,
                      <<<<"x", "s">>, xs>> >>),
              << <<<<"q">>, OrderImported>> >>) :
        xs \in {Arr(1, <<IntNum(5), IntNum(6)>>), Str(<<"a", "b">>), Arr(1, <<IntNum(5)>>),
                Arr(1, <<>>)}}

\* {a && f(1)}, {a || f(1)}, {f(a) && f(2)} and {f(a) || f(2)}
LogicalCallTemplate(operator, called) ==
    TagOf((IF called THEN <<"f", "(", "a", ")">> ELSE <<"a">>) \o <<" ">> \o operator
          \o <<" ", "f", "(">> \o (IF called THEN <<"2">> ELSE <<"1">>) \o <<")">>)

LogicalOperators == {<<"&", "&">>, <<"|", "|">>}

LogicalCallScenarios ==
    {Scenario(LogicalCallTemplate(operator, called),
              Data(<< <<<<"a">>, a>>, <<<<"f">>, Fn("first")>> >>), <<>>) :
        operator \in LogicalOperators, called \in BOOLEAN,
        a \in {Absent, Null, Bool(TRUE), Bool(FALSE), IntNum(0), IntNum(3), Str(<<>>),
               Str(<<"s">>)}}

\* {if a}\nA{b}{for v in xs}\nB{v}{/for}C{else if c}\nD{else}E{/if}F with flags after the
\* opening brace of the if, for, else if and else tags
FlaggedBlocksTemplate(if_flags, for_flags, elseif_flags, else_flags) ==
    TagOf(if_flags \o kw_if \o <<" ", "a">>) \o <<"\n", "A", "{", "b", "}">>
        \o TagOf(for_flags \o kw_for \o <<" ", "v", " ", "i", "n", " ", "x", "s">>)
        \o <<"\n", "B", "{", "v", "}">> \o EndForTag \o <<"C">>
        \o TagOf(elseif_flags \o kw_else_if \o <<" ", "c">>) \o <<"\n", "D">>
        \o TagOf(else_flags \o kw_else) \o <<"E">> \o EndIfTag \o <<"F">>

BlockFlags == {<<>>, <<"!">>, <<"#">>, <<"#", "!">>}

FlaggedBlocksScenarios ==
    {Scenario(FlaggedBlocksTemplate(if_flags, for_flags, elseif_flags, else_flags),
              Data(<< <<<<"a">>, a>>, <<<<"b">>, Str(<<"x">>)>>, <<<<"c">>, Bool(TRUE)>>,
                      <<<<"xs">>, Arr(1, <<IntNum(1)>>)>> >>), <<>>) :
        if_flags \in BlockFlags, for_flags \in {<<>>, <<"#">>},
        elseif_flags \in {<<>>, <<"!">>}, else_flags \in {<<>>, <<"!", "#">>},
        a \in {Bool(TRUE), Bool(FALSE)}}

\* <{ !x}>: the tag of x with a space between the brace and the !
SpacedNotTemplate == <<"<", "{", " ", "!", "x", "}", ">">>

\* <{a && !b}>
InnerNotTemplate == <<"<", "{", "a", " ", "&", "&", " ", "!", "b", "}", ">">>

NotScenarios ==
    {Scenario(SpacedNotTemplate, Data(<< <<<<"x">>, x>> >>), <<>>) : x \in FlaggedValues}
    \cup {Scenario(InnerNotTemplate, Data(<< <<<<"a">>, a>>, <<<<"b">>, b>> >>), <<>>) :
            a \in {Absent, IntNum(3), Str(<<"s">>)}, b \in FlaggedValues}

\* {if a}\nA{else if b}\nB{else}C{/if}
ChainOfThree ==
    IfTag(<<"a">>) \o <<"\n", "A">> \o ElseIfTag(<<"b">>) \o <<"\n", "B">> \o ElseTag \o <<"C">>
        \o EndIfTag

\* {if c}\nX{/if}
InnerIf(text) == IfTag(<<"c">>) \o <<"\n", text>> \o EndIfTag

\* the if chains: 1 the chain of three branches followed by text, 2 the same chain inside
\* the consequent of an if, 3 an if block inside the else-if and the else branch, 4 an if
\* with an else, 5 an if with an else if and no else
ChainTemplate(k) ==
    CASE k = 1 -> ChainOfThree \o <<"D">>
      [] k = 2 -> IfTag(<<"x">>) \o <<"\n">> \o ChainOfThree \o <<"D">> \o EndIfTag \o <<"E">>
      [] k = 3 -> IfTag(<<"a">>) \o <<"\n", "A">> \o ElseIfTag(<<"b">>) \o <<"\n">>
                    \o InnerIf("X") \o <<"B">> \o ElseTag \o InnerIf("Y") \o <<"C">>
                    \o EndIfTag \o <<"D">>
      [] k = 4 -> IfTag(<<"a">>) \o <<"\n", "A">> \o ElseTag \o <<"C">> \o EndIfTag \o <<"D">>
      [] k = 5 -> IfTag(<<"a">>) \o <<"\n", "A">> \o ElseIfTag(<<"b">>) \o <<"\n", "B">>
                    \o EndIfTag \o <<"D">>

ChainScenarios ==
    {Scenario(ChainTemplate(k),
              Data(<< <<<<"a">>, Bool(a)>>, <<<<"b">>, Bool(b)>>, <<<<"c">>, Bool(TRUE)>>,
                      <<<<"x">>, Bool(TRUE)>> >>), <<>>) :
        k \in 1..5, a \in BOOLEAN, b \in BOOLEAN}

UnaryOperators == {"+", "-", "!"}

\* <{ +x}>, <{ -x}> and <{ !x}> (the space keeps the ! from being a flag), and the same
\* with the operand 5
UnaryTemplate(operator, operand) == <<"<", "{", " ", operator, operand, "}", ">">>

\* <{+5}> and <{-5}>
SignedFiveTemplate(operator) == <<"<", "{", operator, "5", "}", ">">>

UnaryValues == {IntNum(5), IntNum(0), IntNum(-2), Num(3, 2), Bool(TRUE), Null, Str(<<"7">>)}

UnaryScenarios ==
    {Scenario(UnaryTemplate(operator, "x"), Data(<< <<<<"x">>, x>> >>), <<>>) :
        operator \in UnaryOperators, x \in UnaryValues}
    \cup {Scenario(UnaryTemplate(operator, "5"), <<>>, <<>>) : operator \in UnaryOperators}
    \cup {Scenario(SignedFiveTemplate(operator), <<>>, <<>>) : operator \in {"+", "-"}}

\* a comment that holds a line break
TwoLineComment == <<"<", "!", "-", "-", "\n", "-", "-", ">">>

\* what stands before a tag with a syntax error and what stands after it
TagPrefixes == {<<>>, <<"x">>, <<"\n">>, <<"x", "\n", "y">>, <<"\n", "\n">>, TwoLineComment}

TagSuffixes == {<<>>, <<"x">>, <<"\n">>, <<"\n", "\n", "x">>, TwoLineComment}

\* the tags {(1} and {a @}, whose expression is a syntax error
BrokenTags == {TagOf(<<"(", "1">>), TagOf(<<"a", " ", "@">>)}

BrokenTagTemplate(prefix, tag, suffix) == prefix \o tag \o suffix

BrokenTagScenarios ==
    {Scenario(BrokenTagTemplate(prefix, tag, suffix), <<>>, <<>>) :
        prefix \in TagPrefixes, tag \in BrokenTags, suffix \in TagSuffixes}

Scenarios ==
    IfChainScenarios \cup ForScenarios \cup ImportScenarios \cup ExpressionScenarios
        \cup MemberScenarios \cup UnclosedScenarios \cup MalformedScenarios
        \cup ImportFailureScenarios \cup CallScenarios \cup FlagScenarios
        \cup EscapeScenarios \cup RegionScenarios \cup CommentScenarios
        \cup LiteralScenarios \cup FrameScenarios \cup OrderScenarios
        \cup LogicalCallScenarios \cup FlaggedBlocksScenarios \cup NotScenarios
        \cup ChainScenarios \cup UnaryScenarios \cup BrokenTagScenarios

---------------------------------------------------------------------------
(* The program: parse() and render() of a template *)

Init ==
    \E scenario \in Scenarios :
        /\ input_template = scenario.template
        /\ input_data = scenario.data
        /\ input_settings = [import_directory |-> <<>>]
        /\ files = scenario.files
        /\ pc = "start"
        /\ parsed = Undefined
        /\ output = Undefined
        /\ error = NoError
        /\ trace = <<>>
        /\ tokenizer = Null
        /\ returned = Null
        /\ parse_token_at = <<>>

\* parse(input_template)
Parse ==
    /\ pc = "start"
    /\ \E result \in {Call("parse", <<input_template>>)} :
        /\ parsed' = result.node
        /\ error' = result.error
        /\ pc' = IF result.error = NoError THEN "parsed" ELSE "parse_failed"
    /\ UNCHANGED <<input_template, input_data, input_settings, files, output, trace>>
    /\ UNCHANGED <<tokenizer, returned, parse_token_at>>

\* render(input_template, input_data, input_settings)
Render ==
    /\ pc = "start"
    /\ \E result \in {Call("render", <<input_template>>)} :
        /\ parsed' = result.parsed
        /\ output' = result.output
        /\ error' = result.error
        /\ trace' = result.trace
        /\ pc' = IF result.error = NoError THEN "rendered" ELSE "render_failed"
    /\ UNCHANGED <<input_template, input_data, input_settings, files, tokenizer, returned,
                   parse_token_at>>

Next == Parse \/ Render

Spec == Init /\ [][Next]_vars

---------------------------------------------------------------------------
(* A Tokenizer object on its own: the calls advance() and next() made on it *)
(* one at a time, in any order and with any expected type                  *)

\* <!--c-->
ShortComment == <<"<", "!", "-", "-", "c", "-", "-", ">">>

\* the expressions a tokenizer is made of with expression_tokens
TokenizerExpressions ==
    {<<"a", " ", "@">>, <<"a", " ", "+", " ", "1">>, <<"f", "(", "1", ",", " ", "2", ")">>,
     <<"a", "\n", " ", "@", "b">>, <<"x", ".", "y", " ", "=", "=", " ", "\"", "s", "\"">>,
     <<"a">> \o ShortComment \o <<"b">>, <<>>, <<" ", " ">>}

\* the templates a tokenizer is made of with template_tokens
TokenizerTemplates ==
    {<<"x", "{", "a", "}", "y">>, ShortComment \o <<"{", "a", "}", "\n">>,
     <<"{", "i", "f", " ", "a", "}", "\n", "A", "{", "/", "i", "f", "}">>,
     <<"a", "\n", "\n", "@">>}

\* Tokenizer(...) that returned: the objects the calls are made on
Tokenizers ==
    {tk \in {Tokenizer(expression, expression_tokens, line_offset) :
                expression \in TokenizerExpressions, line_offset \in {0, 2}}
            \cup {Tokenizer(template, template_tokens, 0) : template \in TokenizerTemplates} :
        ~Failed(tk)}

\* a call with its outcome
Called(call, expected, result) ==
    [call |-> call, expected |-> expected, token |-> result.token, thrown |-> result.thrown]

TokenizerInit ==
    /\ tokenizer \in Tokenizers
    /\ returned = Called("Tokenizer", "undefined", Returns(tokenizer, NoToken))
    /\ input_template = tokenizer.input_template
    /\ input_data = <<>>
    /\ input_settings = [import_directory |-> <<>>]
    /\ files = <<>>
    /\ pc = "tokenizing"
    /\ parse_token_at = <<>>
    /\ parsed = Undefined
    /\ output = Undefined
    /\ error = NoError
    /\ trace = <<>>

\* the types advance() is called with: the type of the lookahead, two types that may differ
\* from it, and none
ExpectedTypes == {"TEXT", "IDENTIFIER", "undefined"}

\* tokenizer.advance(expected)
Advance ==
    /\ pc = "tokenizing"
    /\ \E expected \in ExpectedTypes \cup ({tokenizer.next_token.type} \ {"null"}) :
        \E result \in {traverse_and_set_token(tokenizer, expected)} :
            /\ tokenizer' = result.tokenizer
            /\ returned' = Called("advance", expected, result)
    /\ UNCHANGED <<input_template, input_data, input_settings, files, pc, parsed, output, error,
                   trace, parse_token_at>>

\* tokenizer.next()
Peek ==
    /\ pc = "tokenizing"
    /\ \E result \in {return_next_token(tokenizer)} :
        /\ tokenizer' = result.tokenizer
        /\ returned' = Called("next", "undefined", result)
    /\ UNCHANGED <<input_template, input_data, input_settings, files, pc, parsed, output, error,
                   trace, parse_token_at>>

TokenizerNext == Advance \/ Peek

TokenizerSpec == TokenizerInit /\ [][TokenizerNext]_vars

---------------------------------------------------------------------------
(* parse() one turn of its loop at a time: the while loop of the BlockList *)
(* that parse() returns, which reads the template to its end               *)

\* the pieces the templates are made of: text, a comment, two tags, an if block with an
\* else, a for block, a closing tag without its block, a tag that is a syntax error, an
\* else without its if
TemplatePieces ==
    {<<"a">>, ShortComment,
     <<"{", "x", " ", "+", " ", "f", "(", "1", ",", " ", "2", ")", ".", "y", "}">>,
     <<"{", "a", " ", "?", " ", "b", "[", "0", "]", " ", ":", " ", "!", "c", "}">>,
     IfTag(<<"a">>) \o <<"\n", "A">> \o ElseTag \o <<"B">> \o EndIfTag,
     ForTag(<<"v">>, <<"x", "s">>) \o <<"\n">> \o TagOf(<<"v">>) \o EndForTag,
     EndIfTag, TagOf(<<"(", "1">>), ElseTag \o <<"\n", "C">>}

\* a, a line break and a comment, then two pieces with b between them and the tag of v
LongTemplate(p, q) == <<"a", "\n">> \o ShortComment \o p \o <<"b">> \o q \o TagOf(<<"v">>)

\* the templates parse() is given: up to two pieces, and the long templates
ParserTemplates ==
    {<<>>} \cup TemplatePieces \cup {p \o q : p \in TemplatePieces, q \in TemplatePieces}
        \cup {LongTemplate(p, q) : p \in TemplatePieces, q \in TemplatePieces}

ParserInit ==
    /\ input_template \in ParserTemplates
    /\ pc = "start"
    /\ tokenizer = Null
    /\ parse_token_at = <<>>
    /\ parsed = Undefined
    /\ error = NoError
    /\ returned = Null
    /\ input_data = <<>>
    /\ input_settings = [import_directory |-> <<>>]
    /\ files = <<>>
    /\ output = Undefined
    /\ trace = <<>>

RECURSIVE TokenizerStates(_, _)
\* the states of a tokenizer from this one on, read token by token to the end of its input
TokenizerStates(tk, states) ==
    IF tk.next_token = NoToken THEN states \cup {tk}
    ELSE TokenizerStates(advance(tk, tk.next_token.type), states \cup {tk})

\* parse(input_template) is called: TemplateParser() makes its tokenizer, and BlockList()
\* starts with an empty node_list. What parse_token() gives for the lookahead is a function
\* of the state of the tokenizer, kept for the turns of the loop
CallParse ==
    /\ pc = "start"
    /\ pc' = "parsing"
    /\ \E tk \in {TemplateParser(input_template)} :
        /\ tokenizer' = tk
        /\ parse_token_at' = [state \in TokenizerStates(tk, {}) |->
                                 Call("parse_token", <<state.next_token.type, state>>)]
    /\ parsed' = <<>>
    /\ UNCHANGED <<input_template, input_data, input_settings, files, output, trace, returned,
                   error>>

\* one turn of the while loop of BlockList(): parse_token() for the type of the lookahead,
\* and the push of its node; an error thrown in it ends parse()
Turn ==
    /\ pc = "parsing"
    /\ tokenizer.next_token # NoToken
    /\ \E node_list \in {BlockListPush(<<>>, Parsed(parsed, tokenizer),
                                      parse_token_at[tokenizer])} :
        /\ tokenizer' = node_list.tk
        /\ parsed' = node_list.node
        /\ error' = node_list.tk.error
        /\ pc' = IF Failed(node_list.tk) THEN "parse_failed" ELSE "parsing"
    /\ UNCHANGED <<input_template, input_data, input_settings, files, output, trace, returned,
                   parse_token_at>>

\* the end of the loop: parse() returns the BlockList
Return ==
    /\ pc = "parsing"
    /\ tokenizer.next_token = NoToken
    /\ parsed' = [type |-> "BlockList", nodes |-> parsed]
    /\ pc' = "parsed"
    /\ UNCHANGED <<input_template, input_data, input_settings, files, output, trace, returned,
                   tokenizer, error, parse_token_at>>

ParserNext == CallParse \/ Turn \/ Return

ParserSpec == ParserInit /\ [][ParserNext]_vars

\* parse() is one synchronous call: once called it runs its loop until it returns or throws
ParserFairSpec == ParserSpec /\ WF_vars(Turn \/ Return)

---------------------------------------------------------------------------
(* Properties *)

\* the value the data object gives a name: undefined when it has no such key
Given(name) ==
    IF \E i \in DOMAIN input_data : input_data[i][1] = name
    THEN input_data[CHOOSE i \in DOMAIN input_data : input_data[i][1] = name][2]
    ELSE Undefined

\* the values the host language takes for false among those the data objects hold
Falsy == {Undefined, Null, Bool(FALSE), IntNum(0), Str(<<>>)}

\* render() has returned or thrown
Finished == pc \in {"rendered", "render_failed"}

\* the block of the chain {if a}..A{else if b}..B{else}C{/if} of the given number of
\* branches that the values of a and b choose
ChosenBranch(branches) ==
    CASE Given(<<"a">>) \notin Falsy -> <<"\n", "A">>
      [] branches = 3 /\ Given(<<"b">>) \notin Falsy -> <<"\n", "B">>
      [] branches = 3 -> <<"C">>
      [] branches = 2 -> <<"B">>
      [] OTHER -> <<>>

LoopContext(context, identifiers, pair) ==
    IF Len(identifiers) >= 2
    THEN ObjSet(ObjSet(context, identifiers[1], pair[1]), identifiers[2], pair[2])
    ELSE ObjSet(context, identifiers[1], pair[1])

\* C2: every iteration of a For body is rendered with the context the For node itself is
\* rendered with (bindings of enclosing loops and with arguments of an enclosing import
\* included), overlaid with the bindings of this loop
C2_ForBodySeesEnclosingContext ==
    \A i \in DOMAIN trace :
        trace[i].ev = "For" =>
            trace[i].block_input_data
                = LoopContext(trace[i].node_data, trace[i].identifiers, trace[i].pair)

\* the pairs a For iterates over, by the type of the iterator value: (element, index) of an
\* array, (character, index) of a string, (k, k - 1) for k in 1..|N| of a number N,
\* (key, value) of a plain object in the order the keys were inserted, none of anything else
IterationPairs(value) ==
    CASE value.t = "array" -> [i \in 1..Len(value.e) |-> <<value.e[i], IntNum(i - 1)>>]
      [] value.t = "string" -> [i \in 1..Len(value.v) |-> <<Str(<<value.v[i]>>), IntNum(i - 1)>>]
      [] value.t = "number" /\ value.d # 0 ->
            [i \in 1..(Abs(value.n) \div value.d) |-> <<IntNum(i), IntNum(i - 1)>>]
      [] value.t = "object" -> [i \in 1..Len(value.e) |-> <<Str(value.e[i][1]), value.e[i][2]>>]
      [] OTHER -> <<>>

\* what a tag gives in the output for a value: nothing for null and undefined
Shown(value) == IF value \in {Null, Undefined} THEN <<>> ELSE StringOf(value)

RECURSIVE IndexedOutput(_, _, _)
\* the bodies  sep second mark first ;  of the pairs, in order
IndexedOutput(sep, mark, pairs) ==
    IF pairs = <<>> THEN <<>>
    ELSE sep \o Shown(pairs[1][2]) \o mark \o Shown(pairs[1][1]) \o <<";">>
             \o IndexedOutput(sep, mark, Tail(pairs))

\* C3: a For iterates over the pairs its iterator value gives by its type, binds the first
\* identifier to the first component and the second to the second, and concatenates the
\* bodies in order: {for v, i in xs}{i}:{v};{/for} gives 0:10;1:20;2:30; for xs = [10, 20, 30]
\* and {for n, i in 3}{n}-{i};{/for} gives 1-0;2-1;3-2;
C3_ForIteratesByType ==
    \A sep \in Separators :
        /\ Finished /\ input_template = ForTemplate(2, sep) =>
                /\ pc = "rendered"
                /\ output = Str(IndexedOutput(sep, <<":">>, IterationPairs(Given(<<"x", "s">>))))
        /\ \A count \in 0..MaxCount :
                Finished /\ input_template = ForCountTemplate(count, sep) =>
                    /\ pc = "rendered"
                    /\ output = Str(IndexedOutput(sep, <<"-">>,
                                        [i \in 1..count |-> <<IntNum(i - 1), IntNum(i)>>]))

\* the import that logs event i is a node of the template's own list, in no loop
InNoLoop(i) ==
    /\ parsed # Undefined
    /\ \E n \in DOMAIN parsed.nodes :
          /\ parsed.nodes[n].type = "Import"
          /\ parsed.nodes[n].statement.with = trace[i].with

\* the context the node that logs event i is rendered with: the context of the iteration it
\* is in, or the data object when it is in no loop
EnclosingContext(i) ==
    LET iterations == {j \in 1..(i - 1) : trace[j].ev = "For"}
    IN  IF iterations = {} \/ InNoLoop(i) THEN input_data
        ELSE trace[Max(iterations)].block_input_data

RECURSIVE ArgumentValue(_, _)
\* the value of a with argument (a number, a name, a sum, a call of a named function) in a
\* context
ArgumentValue(node, context) ==
    CASE node.type = "NumericLiteral" -> node.value
      [] node.type = "Identifier" -> ObjGet(context, node.value)
      [] node.type = "CallExpression" ->
            ApplyFunction(ArgumentValue(node.callee, context).name,
                          [a \in DOMAIN node.arguments |->
                              ArgumentValue(node.arguments[a], context)])
      [] node.type = "BinaryExpression" /\ node.operator = <<"+">> ->
            Plus(ArgumentValue(node.left, context), ArgumentValue(node.right, context))

RECURSIVE WithOverlay(_, _, _)
\* data with every with argument set in turn to its value in the context
WithOverlay(with, context, data) ==
    IF with = <<>> THEN data
    ELSE WithOverlay(Tail(with), context,
                     ObjSet(data, with[1].key, ArgumentValue(with[1].value, context)))

\* C4: an Import renders the imported template with the importing node's current context
\* (loop variables included) overlaid with the with arguments, every argument evaluated
\* against the importing context and a later entry of a key overriding an earlier one
C4_ImportContext ==
    \A i \in DOMAIN trace :
        trace[i].ev = "Import" =>
            /\ trace[i].import_context = EnclosingContext(i)
            /\ trace[i].import_data
                = WithOverlay(trace[i].with, trace[i].import_context, trace[i].import_context)

\* {import 'p' with (k: 1, j: k)} is rendered where the context has k = 9, and the imported
\* [{k}{j}{w}] gives [19w]: k of the argument, j of the importing context's k, w inherited
C4_ArgumentOfImportingContext ==
    /\ pc = "rendered"
    /\ Given(<<"k">>) = IntNum(9)
    /\ Given(<<"p">>) = Str(ImportedTags)
    /\ \E i \in DOMAIN trace : trace[i].ev = "Import" /\ Len(trace[i].with) = 2
    /\ output = Str(<<"[", "1", "9", "w", "]">>)

RECURSIVE SplitWords(_)
\* the words of a string, a word ending at each space
SplitWords(s) ==
    LET spaces == {i \in 1..Len(s) : s[i] = " "}
    IN  IF spaces = {} THEN <<s>>
        ELSE <<SubSeq(s, 1, Min(spaces) - 1)>> \o SplitWords(SubSeq(s, Min(spaces) + 1, Len(s)))

\* the words between the braces of the template
TemplateWords == SplitWords(SubSeq(input_template, 2, Len(input_template) - 1))

IsNumberWord(word) == word # <<>> /\ \A i \in 1..Len(word) : word[i] \in Digits

IsStringWord(word) == Len(word) >= 2 /\ word[1] = "'" /\ word[Len(word)] = "'"

\* a tag of operands (numbers, strings) with a binary operator, ? or : between each two
IsOperatorExpression(words) ==
    /\ Len(input_template) >= 2
    /\ input_template[1] = "{"
    /\ \A i \in 2..Len(input_template) : input_template[i] = "}" <=> i = Len(input_template)
    /\ Len(words) % 2 = 1
    /\ \A i \in 1..Len(words) :
        IF i % 2 = 1 THEN IsNumberWord(words[i]) \/ IsStringWord(words[i])
        ELSE words[i] \in BinaryOperators \cup {<<"?">>, <<":">>}

\* the level of a binary operator in the grammar: the higher, the tighter it binds
OperatorLevel(operator) ==
    CASE operator \in {<<"*">>, <<"/">>} -> 4
      [] operator \in {<<"+">>, <<"-">>} -> 3
      [] operator \in {<<"<">>, <<">">>, <<"<", "=">>, <<">", "=">>} -> 2
      [] operator \in {<<"=", "=">>, <<"!", "=">>} -> 1

RECURSIVE GrammarTree(_)
\* the tree the grammar gives the words: a ternary splits at its first ? and the : after it,
\* a chain of binary operators at the last of its operators of the lowest level
GrammarTree(words) ==
    LET questions == {i \in 1..Len(words) : words[i] = <<"?">>}
        colons == {i \in 1..Len(words) : words[i] = <<":">>}
        operators == {i \in 1..Len(words) : i % 2 = 0}
        lowest == Min({OperatorLevel(words[i]) : i \in operators})
        last == Max({i \in operators : OperatorLevel(words[i]) = lowest})
    IN  CASE Len(words) = 1 /\ IsNumberWord(words[1]) ->
                [type |-> "NumericLiteral", value |-> IntNum(DigitsToNat(words[1]))]
          [] Len(words) = 1 /\ IsStringWord(words[1]) ->
                [type |-> "StringLiteral", value |-> Str(SubSeq(words[1], 2, Len(words[1]) - 1))]
          [] Len(words) > 1 /\ questions # {} ->
                [type |-> "ConditionalExpression",
                 test |-> GrammarTree(SubSeq(words, 1, Min(questions) - 1)),
                 consequent |-> GrammarTree(SubSeq(words, Min(questions) + 1, Min(colons) - 1)),
                 alternate |-> GrammarTree(SubSeq(words, Min(colons) + 1, Len(words)))]
          [] OTHER ->
                [type |-> "BinaryExpression", operator |-> words[last],
                 left |-> GrammarTree(SubSeq(words, 1, last - 1)),
                 right |-> GrammarTree(SubSeq(words, last + 1, Len(words)))]

\* C5: over * /, + -, < > <= >=, == != and ? :, the tree the expression parser builds is the
\* one of the grammar: multiplicative binds tighter than additive, additive than relational,
\* relational than equality, the ternary lowest; a level chains to the left and the ternary
\* to the right.  {1 + 2 * 3} renders 7 and {2 + 2 == 4 ? 'Yes' : 'No'} renders Yes
C5_ExpressionTreeFollowsGrammar ==
    pc # "start" =>
        /\ IsOperatorExpression(TemplateWords) =>
                /\ pc \in {"parsed", "rendered"}
                /\ parsed = [type |-> "BlockList",
                             nodes |-> <<[type |-> "Tag", value |-> GrammarTree(TemplateWords)]>>]
        /\ Finished /\ input_template = <<"{", "1", " ", "+", " ", "2", " ", "*", " ", "3", "}">> =>
                output = Str(<<"7">>)
        /\ Finished /\ TemplateWords = << <<"2">>, <<"+">>, <<"2">>, <<"=", "=">>, <<"4">>, <<"?">>,
                                          <<"'", "Y", "e", "s", "'">>, <<":">>,
                                          <<"'", "N", "o", "'">> >> =>
                output = Str(<<"Y", "e", "s">>)

\* {1 - 2 * 3 - 4} is parsed into (1 - (2 * 3)) - 4 and rendered
C5_ChainParsedAndRendered ==
    /\ pc = "rendered"
    /\ TemplateWords = << <<"1">>, <<"-">>, <<"2">>, <<"*">>, <<"3">>, <<"-">>, <<"4">> >>
    /\ parsed.nodes[1].value.operator = <<"-">>
    /\ parsed.nodes[1].value.left.right.operator = <<"*">>
    /\ output = Str(<<"-", "9">>)

\* left || right and left && right of the host language
LogicalOr(left, right) == IF left \in Falsy THEN right ELSE left

LogicalAnd(left, right) == IF left \in Falsy THEN left ELSE right

\* the node of the name of an operand
Name(word) == [type |-> "Identifier", value |-> word]

\* the node of  left operator right
Logical(operator, left, right) ==
    [type |-> "LogicalExpression", operator |-> operator, left |-> left, right |-> right]

\* a template of the one tag {value} was parsed, and where it was rendered it gave the value
TagGives(node, value) ==
    /\ pc \in {"parsed", "rendered"}
    /\ parsed = [type |-> "BlockList", nodes |-> <<[type |-> "Tag", value |-> node]>>]
    /\ pc = "rendered" => output = Str(Shown(value))

\* C6: && binds tighter than ||: a || b && c is parsed and evaluated as a || (b && c), and
\* a && b || c as (a && b) || c, for all values of the operands
C6_AndBindsTighterThanOr ==
    pc # "start" =>
        /\ TemplateWords = << <<"a">>, <<"|", "|">>, <<"b">>, <<"&", "&">>, <<"c">> >> =>
                TagGives(Logical(<<"|", "|">>, Name(<<"a">>),
                                 Logical(<<"&", "&">>, Name(<<"b">>), Name(<<"c">>))),
                         LogicalOr(Given(<<"a">>), LogicalAnd(Given(<<"b">>), Given(<<"c">>))))
        /\ TemplateWords = << <<"a">>, <<"&", "&">>, <<"b">>, <<"|", "|">>, <<"c">> >> =>
                TagGives(Logical(<<"|", "|">>,
                                 Logical(<<"&", "&">>, Name(<<"a">>), Name(<<"b">>)),
                                 Name(<<"c">>)),
                         LogicalOr(LogicalAnd(Given(<<"a">>), Given(<<"b">>)), Given(<<"c">>)))

\* parse() has returned or thrown
ParseFinished == pc \in {"parsed", "parse_failed"}

\* the BlockList of a single Text node
TextBlock(text) == [type |-> "BlockList", nodes |-> <<[type |-> "Text", value |-> text]>>]

\* C7: an if/else block written on one line, {if a}A{else}B{/if}, is parsed into a BlockList
\* of one If node with the test a, the consequent [Text A] and the alternate Else of
\* [Text B]; a block-opening tag ends at the first } after its {, so what follows it on the
\* line is neither swallowed into the tag nor dropped, and the one-line blocks are parsed
C7_OneLineIfElseIsParsed ==
    ParseFinished =>
        /\ input_template = IfChainTemplate(2, <<>>) =>
                /\ pc = "parsed"
                /\ parsed = [type |-> "BlockList",
                             nodes |-> <<[type |-> "If",
                                          statement |-> [type |-> "IfStatement",
                                                         test |-> Name(<<"a">>)],
                                          consequent |-> TextBlock(<<"A">>),
                                          alternate |-> [type |-> "Else",
                                                         value |-> TextBlock(<<"B">>)]]>>]
        /\ input_template \in {IfChainTemplate(1, <<>>), IfChainTemplate(3, <<>>),
                               ForTemplate(1, <<>>), ForTemplate(2, <<>>)} =>
                pc = "parsed"

\* the Import node of the path 'p' with the given arguments
ImportNodeOf(with) ==
    [type |-> "Import",
     statement |-> [type |-> "ImportStatement",
                    path |-> [type |-> "StringLiteral", value |-> Str(<<"p">>)],
                    with |-> with]]

\* C8: an import tag is an import whether or not whitespace follows the opening brace:
\* { import 'p' } and { import 'p' with (...) } are parsed into an Import node of the path
\* and the with list as {import 'p'} is, and render the imported template
C8_SpacedImportIsImport ==
    /\ ParseFinished /\ input_template = ImportTag(TRUE, <<>>) =>
            pc = "parsed" /\ parsed = [type |-> "BlockList", nodes |-> <<ImportNodeOf(<<>>)>>]
    /\ \A with \in WithLists :
            ParseFinished /\ input_template = ImportTag(TRUE, with) =>
                /\ pc = "parsed"
                /\ Len(parsed.nodes) = 1
                /\ parsed.nodes[1].type = "Import"
                /\ parsed.nodes[1].statement.path = ImportNodeOf(<<>>).statement.path
    /\ Finished /\ input_template = ImportTag(TRUE, <<>>) /\ Given(<<"p">>) = Str(<<"T">>) =>
            pc = "rendered" /\ output = Str(<<"T">>)

\* C9: when the context has a key equal to the import path and the value under it is a
\* string, Import takes that string as the template source and the file loader is never
\* invoked, whatever the string holds
C9_StringInContextIsTheSource ==
    \A with \in WithLists :
        Finished /\ input_template = ImportTag(FALSE, with) /\ Given(<<"p">>).t = "string" =>
            /\ \A i \in DOMAIN trace : trace[i].ev # "readTextFile"
            /\ pc = "rendered"
            /\ \A i \in DOMAIN trace : trace[i].ev = "Import" => trace[i].source = Given(<<"p">>)

\* the first components of the pairs of an iterator value, in the order of the iteration:
\* the elements, the characters, the counts 1..|N|, the keys of a plain object
FirstComponents(value) ==
    CASE value.t = "array" -> value.e
      [] value.t = "string" -> [i \in 1..Len(value.v) |-> Str(<<value.v[i]>>)]
      [] value.t = "number" /\ value.d # 0 -> [i \in 1..(Abs(value.n) \div value.d) |-> IntNum(i)]
      [] value.t = "object" -> [i \in 1..Len(ObjectKeys(value.e)) |-> Str(ObjectKeys(value.e)[i])]
      [] OTHER -> <<>>

\* the value components: as the first components, but of a plain object the property values
ValueComponents(value) ==
    IF value.t = "object"
    THEN [i \in 1..Len(ObjectKeys(value.e)) |-> ObjGet(value.e, ObjectKeys(value.e)[i])]
    ELSE FirstComponents(value)

RECURSIVE ItemOutput(_)
\* the bodies  line break, value, ;  of the values
ItemOutput(values) ==
    IF values = <<>> THEN <<>>
    ELSE <<"\n">> \o Shown(values[1]) \o <<";">> \o ItemOutput(Tail(values))

\* C10 as stated: the single identifier of a For is bound to the value component for every
\* iterator type: element, character, count, and of a plain object the property value
C10_SingleIdentifierBindsValue ==
    Finished /\ input_template = ForTemplate(1, <<"\n">>) =>
        pc = "rendered" /\ output = Str(ItemOutput(ValueComponents(Given(<<"x", "s">>))))

\* C10 amended: the single identifier of a For is bound to the first component of every
\* pair: the array element, the string character, the count of a numeric iterator, and of
\* a plain object the property key (not the value)
C10_SingleIdentifierBindsFirstComponent ==
    Finished /\ input_template = ForTemplate(1, <<"\n">>) =>
        pc = "rendered" /\ output = Str(ItemOutput(FirstComponents(Given(<<"x", "s">>))))

\* {for v in xs} over the object {b: 1, a: 2} is rendered and gives the keys b and a
C10_ObjectKeysRendered ==
    /\ pc = "rendered"
    /\ input_template = ForTemplate(1, <<"\n">>)
    /\ Given(<<"x", "s">>) = Obj(2, << <<<<"b">>, IntNum(1)>>, <<<<"a">>, IntNum(2)>> >>)
    /\ output = Str(<<"\n", "b", ";", "\n", "a", ";">>)

RECURSIVE PathValue(_)
\* the value at the end of a path of keys from the data object: undefined from the first
\* undefined or null on the way
PathValue(keys) ==
    IF Len(keys) = 1 THEN Given(keys[1])
    ELSE IF PathValue(SubSeq(keys, 1, Len(keys) - 1)) \in {Undefined, Null} THEN Undefined
    ELSE GetProperty(PathValue(SubSeq(keys, 1, Len(keys) - 1)), keys[Len(keys)])

\* C11: an identifier absent from the context, and a dot or bracket member access whose
\* object is undefined or null at any depth, evaluate to undefined and never raise, and a tag
\* whose value is undefined or null gives the empty string
C11_MissingValuesGiveUndefined ==
    \A path \in MemberPaths :
        Finished /\ input_template = path.template =>
            /\ pc = "rendered"
            /\ output = Str(Shown(PathValue(path.keys)))
            /\ PathValue(path.keys) \in {Undefined, Null} => output = Str(<<>>)

\* {a.b['c']} is rendered where the context has no a, and gives the empty string
C11_MissingObjectRendered ==
    /\ pc = "rendered"
    /\ input_template = TagOf(<<"a">> \o DotAccess(<<"b">>) \o BracketAccess(<<"c">>))
    /\ input_data = <<>>
    /\ output = Str(<<>>)

---------------------------------------------------------------------------
(* Blocks without their closing tag *)

\* the number of line breaks of a text
RECURSIVE LineBreaks(_)
LineBreaks(text) ==
    IF text = <<>> THEN 0 ELSE (IF Head(text) = "\n" THEN 1 ELSE 0) + LineBreaks(Tail(text))

\* the message for the closing tag that is missing
MissingMessage(missing) ==
    IF missing = "if" THEN "Missing {/if} closing tag" ELSE "Missing {/for} closing tag"

\* C12: a template that ends inside an {if ...} or {for ...} block is not parsed, whether
\* the body follows the opening tag on its line or not: parse() and render() throw the
\* NanoError 'Missing {/if} closing tag' or 'Missing {/for} closing tag' of the innermost
\* open block, at the last line of the template, and no tree and no output is returned; a
\* block left open inside a closed block is not parsed either
C12_UnclosedBlockIsAnError ==
    /\ \A block \in UnclosedBlocks :
          pc # "start" /\ input_template = block.template =>
              /\ pc \in {"parse_failed", "render_failed"}
              /\ error = NanoError(MissingMessage(block.missing), <<>>,
                                   LineBreaks(block.template) + 1)
              /\ parsed = Undefined
              /\ output = Undefined
    /\ \A template \in MisclosedBlocks :
          pc # "start" /\ input_template = template =>
              /\ pc \in {"parse_failed", "render_failed"}
              /\ error.name = "NanoError"
              /\ parsed = Undefined

C12_UnclosedElseIfChainFailed ==
    /\ pc = "parse_failed"
    /\ input_template = IfTag(<<"a">>) \o <<"\n", "A">> \o ElseIfTag(<<"b">>) \o <<"\n", "B">>
    /\ error.what = "Missing {/if} closing tag"

---------------------------------------------------------------------------
(* Tags that are not one expression *)

\* C13: a tag whose content is not one expression of the grammar, because tokens remain
\* after a complete expression ({a b}, {1 2}) or because the expression ends early ({2 +}),
\* is a syntax error: parse() and render() throw a NanoError and give no tree
C13_TagIsOneExpression ==
    \A template \in MalformedTags :
        pc # "start" /\ input_template = <<"<">> \o template \o <<">">> =>
            /\ pc \in {"parse_failed", "render_failed"}
            /\ error.name = "NanoError"
            /\ parsed = Undefined

---------------------------------------------------------------------------
(* Imports that fail *)

\* C14: when the loader does not find the file of an import, render() throws the Error
\* 'Imported file "<path>" could not be found.' with the path of that import; any other
\* error thrown while the imported template is loaded, parsed or rendered (the loader's
\* refusal to read, a syntax error of the imported template, the not-found error of an
\* import inside it, a TypeError of its rendering) is thrown by render() as it is; and
\* render() then gives no output, not the text before the import
C14_ImportFailures ==
    \A failure \in ImportFailures :
        /\ Finished
        /\ input_template = ImportBetweenTextTemplate
        /\ input_data = failure.data
        /\ files = failure.files
        => /\ pc = "render_failed"
           /\ error = failure.expected
           /\ output = Undefined

C14_MissingFileReported ==
    /\ pc = "render_failed"
    /\ input_template = ImportBetweenTextTemplate
    /\ input_data = <<>>
    /\ files = <<>>
    /\ error = ImportNotFound(<<"p">>)
    /\ trace = <<[ev |-> "readTextFile", path |-> <<"p">>]>>

---------------------------------------------------------------------------
(* Calls *)

\* C15: the call f(b, 2) of a value f that is not a function (undefined, null, a string, a
\* number, a boolean, a plain object) is undefined and throws nothing, so <{f(b, 2)}>
\* renders <>; a function f is called once with the values of b and 2 in that order and
\* the tag renders what it returns
C15_NonCallableCalleeGivesUndefined ==
    Finished /\ input_template = CallTemplate =>
        /\ pc = "rendered"
        /\ IF Given(<<"f">>).t = "function"
           THEN /\ trace = <<[ev |-> "call", name |-> Given(<<"f">>).name,
                              arguments |-> <<Given(<<"b">>), IntNum(2)>>]>>
                /\ output = Str(<<"<">> \o Shown(ApplyFunction(Given(<<"f">>).name,
                                                               <<Given(<<"b">>), IntNum(2)>>))
                                \o <<">">>)
           ELSE /\ trace = <<>>
                /\ output = Str(<<"<", ">">>)

---------------------------------------------------------------------------
(* Flags *)

RECURSIVE Transformed(_, _)
\* the flag transforms of a text, applied in the order of the flags
Transformed(flags, text) ==
    IF flags = <<>> THEN text
    ELSE Transformed(Tail(flags),
                     IF Head(flags) = "!" THEN return_trimmed_string(text)
                     ELSE return_escaped_string(text))

\* C16: a tag with flags renders the transform of the text the tag without flags renders,
\* whatever the type of its value: <{#x}>, <{!x}>, <{#!x}> and <{!#x}> throw nothing for a
\* number, a boolean, null and undefined
C16_FlagsApplyToEveryType ==
    \A flags \in FlagLists :
        Finished /\ input_template = FlaggedTemplate(flags) =>
            /\ pc = "rendered"
            /\ output = Str(<<"<">> \o Transformed(flags, Shown(Given(<<"x">>))) \o <<">">>)

\* the entity of each of the eight characters
Entities ==
    << <<"&", <<"&", "a", "m", "p", ";">> >>,
       <<"<", <<"&", "l", "t", ";">> >>,
       <<">", <<"&", "g", "t", ";">> >>,
       <<"\"", <<"&", "q", "u", "o", "t", ";">> >>,
       <<"'", <<"&", "#", "3", "9", ";">> >>,
       <<Backtick, <<"&", "#", "x", "6", "0", ";">> >>,
       <<"=", <<"&", "#", "x", "3", "D", ";">> >>,
       <<"/", <<"&", "#", "x", "2", "F", ";">> >> >>

\* a text with every one of the eight characters replaced by its entity
RECURSIVE Escaped(_)
Escaped(text) ==
    IF text = <<>> THEN <<>>
    ELSE (IF \E k \in 1..Len(Entities) : Entities[k][1] = Head(text)
          THEN Entities[CHOOSE k \in 1..Len(Entities) : Entities[k][1] = Head(text)][2]
          ELSE <<Head(text)>>)
         \o Escaped(Tail(text))

\* C17: {#html} renders the string html with every & < > " ' ` = / replaced by its entity
\* (&amp; &lt; &gt; &quot; &#39; &#x60; &#x3D; &#x2F;) and every other character as it is,
\* so the output holds none of < > " ' ` = /; for html = '<i>' it is &lt;i&gt;
C17_EscapeFlag ==
    Finished /\ input_template = EscapeTemplate =>
        /\ pc = "rendered"
        /\ output = Str(Escaped(Given(<<"h", "t", "m", "l">>).v))
        /\ \A i \in 1..Len(output.v) : output.v[i] \notin EscapedChars \ {"&"}
        /\ Given(<<"h", "t", "m", "l">>) = Str(<<"<", "i", ">">>) =>
              output = Str(<<"&", "l", "t", ";", "i", "&", "g", "t", ";">>)

C17_MarkupEscaped ==
    /\ pc = "rendered"
    /\ input_template = EscapeTemplate
    /\ input_data = << <<<<"h", "t", "m", "l">>, Str(<<"<", "i", ">">>)>> >>
    /\ output = Str(<<"&", "l", "t", ";", "i", "&", "g", "t", ";">>)

---------------------------------------------------------------------------
(* Regions of script and style, and comments *)

\* C18: what stands between <script ...> and </script>, and between <style ...> and
\* </style>, is text: {a}region{a} renders the value of a, the region as it is written
\* with every {...} of it, and the value of a
C18_RegionsAreVerbatim ==
    \A region \in PlainRegions \cup OddRegions :
        Finished /\ input_template = RegionTemplate(region) =>
            /\ pc = "rendered"
            /\ output = Str(Shown(Given(<<"a">>)) \o region \o Shown(Given(<<"a">>)))

\* the nodes of {a}text{a}
TagTextTag(text) ==
    [type |-> "BlockList",
     nodes |-> <<[type |-> "Tag", value |-> Name(<<"a">>)],
                 [type |-> "Text", value |-> text],
                 [type |-> "Tag", value |-> Name(<<"a">>)]>>]

\* C19 as stated: an HTML comment is text, {a}A<!-- c -->B{a} renders
\* the comment as it is written between A and B, and a {...} inside it is not evaluated
C19_CommentsAreVerbatim ==
    \A comment \in Comments :
        Finished /\ input_template = CommentTemplate(comment) =>
            /\ pc = "rendered"
            /\ output = Str(Shown(Given(<<"a">>)) \o <<"A">> \o comment \o <<"B">>
                            \o Shown(Given(<<"a">>)))
            /\ trace = <<>>

\* C19 amended: an HTML comment is discarded by the tokenizer: {a}A<!-- c -->B{a} is parsed as the
\* tag a, the one Text AB and the tag a, it renders AB between the values of a, and a {...}
\* inside the comment is neither parsed nor evaluated (no function is called, no file read)
C19_CommentsAreDropped ==
    \A comment \in Comments :
        pc \in {"parsed", "rendered", "render_failed"}
            /\ input_template = CommentTemplate(comment) =>
                /\ pc # "render_failed"
                /\ parsed = TagTextTag(<<"A", "B">>)
                /\ pc = "rendered" =>
                      /\ output = Str(Shown(Given(<<"a">>)) \o <<"A", "B">>
                                      \o Shown(Given(<<"a">>)))
                      /\ trace = <<>>

C19_CommentWithCallDropped ==
    /\ pc = "rendered"
    /\ input_template = CommentTemplate(<<"<", "!", "-", "-", "{", "f", "(", "a", ")", "}",
                                          "-", "-", ">">>)
    /\ output = Str(<<"V", "A", "B", "V">>)

---------------------------------------------------------------------------
(* Literal tags *)

\* C20: a tag that holds only a literal renders the text of the literal in every data
\* context, also one that has values under the names true, false, null, text and 42: a
\* string its characters without the quotes, a number the decimal text of its value,
\* true and false their words, and null nothing
C20_LiteralTags ==
    \A row \in Literals :
        Finished /\ input_template = LiteralTemplate(row.literal) =>
            /\ pc = "rendered"
            /\ output = Str(<<"[">> \o row.text \o <<"]">>)

C20_StringLiteralRendered ==
    /\ pc = "rendered"
    /\ input_template = LiteralTemplate(<<"\"", "t", "e", "x", "t", "\"">>)
    /\ input_data # <<>>
    /\ output = Str(<<"[", "t", "e", "x", "t", "]">>)

---------------------------------------------------------------------------
(* Contexts are copied, not written *)

RECURSIVE LoopOutput(_, _)
\* the bodies  (line break) first mark ;  of the pairs, in order
LoopOutput(pairs, mark) ==
    IF pairs = <<>> THEN <<>>
    ELSE <<"\n">> \o Shown(pairs[1][1]) \o mark \o <<";">> \o LoopOutput(Tail(pairs), mark)

\* C21: For and Import bind into copies of the data object and leave the object itself as
\* it was: in a template of a loop over v, an import with the argument k, a loop over w and
\* the tags of v, k and w, every loop and the import start from the data object the caller
\* gave (not from what an earlier loop or import bound), and what is rendered after them
\* shows the caller's v and k and no w
C21_ContextsAreCopied ==
    Finished /\ input_template = FrameTemplate =>
        /\ pc = "rendered"
        /\ \A i \in 1..Len(trace) :
              /\ trace[i].ev = "For" =>
                    /\ trace[i].node_data = input_data
                    /\ trace[i].block_input_data =
                          ObjSet(input_data, trace[i].identifiers[1], trace[i].pair[1])
              /\ trace[i].ev = "Import" =>
                    /\ trace[i].import_context = input_data
                    /\ trace[i].import_data = ObjSet(input_data, <<"k">>, Given(<<"v">>))
        /\ output =
              Str(LoopOutput(IterationPairs(Given(<<"x", "s">>)), <<>>)
                  \o <<"<">> \o Shown(Given(<<"v">>)) \o Shown(Given(<<"v">>)) \o <<">", "\n">>
                  \o LoopOutput(IterationPairs(Given(<<"x", "s">>)), Shown(Given(<<"k">>)))
                  \o <<"[">> \o Shown(Given(<<"v">>)) \o Shown(Given(<<"k">>)) \o <<"]">>)

C21_LoopsAndImportRendered ==
    /\ pc = "rendered"
    /\ input_template = FrameTemplate
    /\ Given(<<"v">>) = Str(<<"D">>)
    /\ Given(<<"k">>) = Undefined
    /\ Len(trace) = 5

---------------------------------------------------------------------------
(* The order of evaluation *)

\* what an event of the trace is about: the arguments of a call, the path of a file read,
\* the first component of a loop's pair, the path of an import
Step(event) ==
    CASE event.ev = "call" -> <<"call", event.arguments>>
      [] event.ev = "readTextFile" -> <<"read", event.path>>
      [] event.ev = "For" -> <<"for", event.pair[1]>>
      [] event.ev = "Import" -> <<"import", event.path>>

\* the steps of one iteration of the loop of OrderTemplate: the iteration starts, the file
\* is read, the argument g(v) is evaluated, the import is rendered, and in it h(n)
IterationSteps(value) ==
    << <<"for", value>>, <<"read", <<"q">> >>, <<"call", <<value>> >>,
       <<"import", Str(<<"q">>)>>, <<"call", <<value>> >> >>

RECURSIVE LoopSteps(_)
LoopSteps(pairs) ==
    IF pairs = <<>> THEN <<>> ELSE IterationSteps(pairs[1][1]) \o LoopSteps(Tail(pairs))

RECURSIVE ImportedOutput(_)
\* the bodies  (line break) <value> (line break)  of the pairs, in order
ImportedOutput(pairs) ==
    IF pairs = <<>> THEN <<>>
    ELSE <<"\n", "<">> \o Shown(pairs[1][1]) \o <<">", "\n">> \o ImportedOutput(Tail(pairs))

\* C22: sibling nodes, the iterations of a loop and the arguments of a call are evaluated
\* one after another in the order of the source, each to its end before the next starts,
\* a file read included, and the output is their outputs in that order: in OrderTemplate
\* f(1) is called, then every iteration in turn reads the file, evaluates the argument,
\* renders the import, then g(2), h(3) and f(2, 3) are called
C22_EvaluationInSourceOrder ==
    Finished /\ input_template = OrderTemplate =>
        /\ pc = "rendered"
        /\ [i \in 1..Len(trace) |-> Step(trace[i])] =
              << <<"call", <<IntNum(1)>> >> >>
                  \o LoopSteps(IterationPairs(Given(<<"x", "s">>)))
                  \o << <<"call", <<IntNum(2)>> >>, <<"call", <<IntNum(3)>> >>,
                        <<"call", <<IntNum(2), IntNum(3)>> >> >>
        /\ output = Str(<<"1">> \o ImportedOutput(IterationPairs(Given(<<"x", "s">>)))
                        \o <<"2">>)

C22_TwoIterationsInOrder ==
    /\ pc = "rendered"
    /\ input_template = OrderTemplate
    /\ Given(<<"x", "s">>) = Str(<<"a", "b">>)
    /\ output = Str(<<"1", "\n", "<", "a", ">", "\n", "\n", "<", "b", ">", "\n", "2">>)

\* the call of the function first with these arguments, as the trace holds it
CallOf(arguments) == [ev |-> "call", name |-> "first", arguments |-> arguments]

\* C23: l && r and l || r evaluate the left operand and then the right one whatever the
\* left value is: in {a && f(1)} and {a || f(1)} the function is called for every a, in
\* {f(a) && f(2)} and {f(a) || f(2)} both calls are made in that order, and the tag shows
\* the value the host gives l && r and l || r
C23_BothOperandsEvaluated ==
    \A operator \in LogicalOperators :
        /\ Finished /\ input_template = LogicalCallTemplate(operator, FALSE) =>
              /\ pc = "rendered"
              /\ trace = <<CallOf(<<IntNum(1)>>)>>
              /\ output = Str(Shown(IF operator = <<"&", "&">>
                                    THEN LogicalAnd(Given(<<"a">>), IntNum(1))
                                    ELSE LogicalOr(Given(<<"a">>), IntNum(1))))
        /\ Finished /\ input_template = LogicalCallTemplate(operator, TRUE) =>
              /\ pc = "rendered"
              /\ trace = <<CallOf(<<Given(<<"a">>)>>), CallOf(<<IntNum(2)>>)>>
              /\ output = Str(Shown(IF operator = <<"&", "&">>
                                    THEN LogicalAnd(Given(<<"a">>), IntNum(2))
                                    ELSE LogicalOr(Given(<<"a">>), IntNum(2))))

C23_RightCalledThoughLeftDecides ==
    /\ pc = "rendered"
    /\ input_template = LogicalCallTemplate(<<"|", "|">>, FALSE)
    /\ Given(<<"a">>) = Str(<<"s">>)
    /\ trace = <<CallOf(<<IntNum(1)>>)>>
    /\ output = Str(<<"s">>)

RECURSIVE Stamps(_)
RECURSIVE StampsOfList(_, _, _)

\* what a node of the tree carries: its type, its flags (none when it has no such field)
\* and the text of a Text node
Stamp(node) ==
    [type |-> node.type,
     flags |-> IF "flags" \in DOMAIN node THEN node.flags ELSE <<>>,
     text |-> IF node.type = "Text" THEN node.value ELSE <<>>]

\* the stamps of the nodes from the i-th on, after those of stamps
StampsOfList(nodes, i, stamps) ==
    IF i > Len(nodes) THEN stamps ELSE StampsOfList(nodes, i + 1, stamps \o Stamps(nodes[i]))

\* the stamps of the block nodes of a tree in source order
Stamps(node) ==
    CASE node = Null -> <<>>
      [] node.type = "BlockList" -> StampsOfList(node.nodes, 1, <<>>)
      [] node.type = "For" -> <<Stamp(node)>> \o Stamps(node.value)
      [] node.type = "If" -> <<Stamp(node)>> \o Stamps(node.consequent) \o Stamps(node.alternate)
      [] node.type = "Else" -> <<Stamp(node)>> \o Stamps(node.value)
      [] OTHER -> <<Stamp(node)>>

Stamped(type, flags, text) == [type |-> type, flags |-> flags, text |-> text]

\* C24: the flags of a block's opening tag are on the Text nodes that are immediate
\* children of that tag's own body and nowhere else: in
\* {if a}\nA{b}{for v in xs}\nB{v}{/for}C{else if c}\nD{else}E{/if}F the texts \nA and C carry
\* the flags of the if, \nB those of the for, \nD those of the else if, E those of the else,
\* and F, the tags and the block nodes carry none
C24_FlagsOnOwnTextChildren ==
    \A if_flags \in BlockFlags, for_flags \in BlockFlags,
       elseif_flags \in BlockFlags, else_flags \in BlockFlags :
        /\ pc # "start"
        /\ input_template = FlaggedBlocksTemplate(if_flags, for_flags, elseif_flags, else_flags)
        => /\ pc \in {"parsed", "rendered"}
           /\ Stamps(parsed) =
                << Stamped("If", <<>>, <<>>),
                   Stamped("Text", if_flags, <<"\n", "A">>),
                   Stamped("Tag", <<>>, <<>>),
                   Stamped("For", <<>>, <<>>),
                   Stamped("Text", for_flags, <<"\n", "B">>),
                   Stamped("Tag", <<>>, <<>>),
                   Stamped("Text", if_flags, <<"C">>),
                   Stamped("If", <<>>, <<>>),
                   Stamped("Text", elseif_flags, <<"\n", "D">>),
                   Stamped("Else", <<>>, <<>>),
                   Stamped("Text", else_flags, <<"E">>),
                   Stamped("Text", <<>>, <<"F">>) >>

C24_FourFlaggedBlocksParsed ==
    /\ pc = "parsed"
    /\ input_template = FlaggedBlocksTemplate(<<"#", "!">>, <<"#">>, <<"!">>, <<"!", "#">>)
    /\ Len(Stamps(parsed)) = 12
    /\ Stamps(parsed)[7] = Stamped("Text", <<"#", "!">>, <<"C">>)
    /\ Stamps(parsed)[11] = Stamped("Text", <<"!", "#">>, <<"E">>)

\* the value of !value
Not(value) == Bool(value \in Falsy)

\* the Tag nodes of a parsed template, in source order
TagNodes == SelectSeq(parsed.nodes, LAMBDA node : node.type = "Tag")

\* C25 as stated: the ! directly after the brace is a flag and is not in the expression, so
\* <{!x}> is the Tag of the identifier x with the flag ! and renders the trimmed text of x
\* whatever x is; the ! of <{ !x}> and <{a && !b}> is the unary operator, so these have no
\* flags and render !x and a && !b
C25_LeadingMarksAreFlags ==
    /\ Finished /\ input_template = FlaggedTemplate(<<"!">>) =>
          /\ pc = "rendered"
          /\ TagNodes = <<[type |-> "Tag", value |-> Name(<<"x">>), flags |-> <<"!">>]>>
          /\ output = Str(<<"<">> \o return_trimmed_string(Shown(Given(<<"x">>))) \o <<">">>)
    /\ Finished /\ input_template = SpacedNotTemplate =>
          /\ pc = "rendered"
          /\ TagNodes = <<[type |-> "Tag",
                           value |-> [type |-> "UnaryExpression", operator |-> <<"!">>,
                                      value |-> Name(<<"x">>)]]>>
          /\ output = Str(<<"<">> \o Shown(Not(Given(<<"x">>))) \o <<">">>)
    /\ Finished /\ input_template = InnerNotTemplate =>
          /\ pc = "rendered"
          /\ "flags" \notin DOMAIN TagNodes[1]
          /\ TagNodes[1].value.right =
                [type |-> "UnaryExpression", operator |-> <<"!">>, value |-> Name(<<"b">>)]
          /\ output = Str(<<"<">> \o Shown(LogicalAnd(Given(<<"a">>), Not(Given(<<"b">>))))
                          \o <<">">>)

RECURSIVE Outline(_)
RECURSIVE OutlineOfList(_, _, _)

\* the outline of a block: its type, the text of a Text node, the nodes of its body and
\* its alternate (none or one)
Block(type, text, nodes, alternate) ==
    [type |-> type, text |-> text, nodes |-> nodes, alternate |-> alternate]

OutlineOfList(nodes, i, outlines) ==
    IF i > Len(nodes) THEN outlines
    ELSE OutlineOfList(nodes, i + 1, Append(outlines, Outline(nodes[i])))

Outline(node) ==
    CASE node.type = "Text" -> Block("Text", node.value, <<>>, <<>>)
      [] node.type = "If" ->
            Block("If", <<>>, OutlineOfList(node.consequent.nodes, 1, <<>>),
                  IF node.alternate = Null THEN <<>> ELSE <<Outline(node.alternate)>>)
      [] node.type \in {"Else", "For"} ->
            Block(node.type, <<>>, OutlineOfList(node.value.nodes, 1, <<>>), <<>>)
      [] OTHER -> Block(node.type, <<>>, <<>>, <<>>)

TextOutline(text) == Block("Text", text, <<>>, <<>>)

\* the outline of {if a}\nA{else if b}\nB{else}C{/if}
OutlineOfThree ==
    Block("If", <<>>, <<TextOutline(<<"\n", "A">>)>>,
          <<Block("If", <<>>, <<TextOutline(<<"\n", "B">>)>>,
                  <<Block("Else", <<>>, <<TextOutline(<<"C">>)>>, <<>>)>>)>>)

\* the outline each chain template is to have
ChainOutline(k) ==
    CASE k = 1 -> <<OutlineOfThree, TextOutline(<<"D">>)>>
      [] k = 2 -> <<Block("If", <<>>,
                          <<TextOutline(<<"\n">>), OutlineOfThree, TextOutline(<<"D">>)>>, <<>>),
                    TextOutline(<<"E">>)>>
      [] k = 3 -> <<Block("If", <<>>, <<TextOutline(<<"\n", "A">>)>>,
                       <<Block("If", <<>>,
                               <<TextOutline(<<"\n">>),
                                 Block("If", <<>>, <<TextOutline(<<"\n", "X">>)>>, <<>>),
                                 TextOutline(<<"B">>)>>,
                               <<Block("Else", <<>>,
                                       <<Block("If", <<>>, <<TextOutline(<<"\n", "Y">>)>>, <<>>),
                                         TextOutline(<<"C">>)>>, <<>>)>>)>>),
                    TextOutline(<<"D">>)>>
      [] k = 4 -> <<Block("If", <<>>, <<TextOutline(<<"\n", "A">>)>>,
                          <<Block("Else", <<>>, <<TextOutline(<<"C">>)>>, <<>>)>>),
                    TextOutline(<<"D">>)>>
      [] k = 5 -> <<Block("If", <<>>, <<TextOutline(<<"\n", "A">>)>>,
                          <<Block("If", <<>>, <<TextOutline(<<"\n", "B">>)>>, <<>>)>>),
                    TextOutline(<<"D">>)>>

\* C26: in an if chain an {else if} or {else} ends the consequent before it (what follows
\* belongs to the branch it opens), every If has at most one alternate, and the chain takes
\* one {/if}, so the text after it is outside the chain, the chain nested in an if leaves
\* that if its own {/if}, and an if block inside a branch takes its own {/if}
C26_ChainsNestAndCloseOnce ==
    \A k \in 1..5 :
        pc # "start" /\ input_template = ChainTemplate(k) =>
            /\ pc \in {"parsed", "rendered"}
            /\ OutlineOfList(parsed.nodes, 1, <<>>) = ChainOutline(k)

C26_NestedChainParsed ==
    /\ pc = "parsed"
    /\ input_template = ChainTemplate(3)
    /\ Len(parsed.nodes) = 2
    /\ parsed.nodes[1].alternate.type = "If"
    /\ parsed.nodes[1].alternate.alternate.type = "Else"
    /\ Len(parsed.nodes[1].alternate.consequent.nodes) = 3

\* +x, -x and !x of the host
UnaryValue(operator, value) ==
    CASE operator = "+" -> ToNumber(value)
      [] operator = "-" -> NumNeg(ToNumber(value))
      [] operator = "!" -> Not(value)

\* C27 as stated: each of the unary operators +, - and ! the parser accepts is evaluated
\* with its standard meaning, so <{ +x}>, <{ -x}> and <{ !x}> show +x, -x and !x, <{+5}>
\* shows 5 and <{-5}> shows -5
C27_UnaryOperatorsEvaluated ==
    \A operator \in UnaryOperators :
        /\ Finished /\ input_template = UnaryTemplate(operator, "x") =>
              /\ pc = "rendered"
              /\ output = Str(<<"<">> \o Shown(UnaryValue(operator, Given(<<"x">>))) \o <<">">>)
        /\ Finished /\ input_template \in {UnaryTemplate(operator, "5"),
                                           SignedFiveTemplate(operator)} =>
              /\ pc = "rendered"
              /\ output = Str(<<"<">> \o Shown(UnaryValue(operator, IntNum(5))) \o <<">">>)

\* the 1-based line of a template on which the text after this prefix stands
LineAfter(prefix) == 1 + CountIn(prefix, {"\n"})

\* C28 as stated: the line of the syntax error of a tag's expression is the line of the
\* template the tag stands on, whatever precedes and follows the tag
C28_ErrorLineIsTagLine ==
    \A prefix \in TagPrefixes, tag \in BrokenTags, suffix \in TagSuffixes :
        pc # "start" /\ input_template = BrokenTagTemplate(prefix, tag, suffix) =>
            /\ pc \in {"parse_failed", "render_failed"}
            /\ error.name = "NanoError"
            /\ error.line = LineAfter(prefix)

\* the step is a call of advance(expected), of next()
AdvanceCalled(expected) == returned'.call = "advance" /\ returned'.expected = expected

PeekCalled == returned'.call = "next"

\* the lookahead, the cursor and the line are after the step what they were before it
TokenizerUnchanged ==
    /\ tokenizer'.next_token = tokenizer.next_token
    /\ tokenizer'.cursor = tokenizer.cursor
    /\ tokenizer'.line = tokenizer.line

\* the texts a tokenizer of these inputs discards between two tokens
DiscardedTexts == {<<>>, <<" ">>, <<" ", " ">>, <<"\n", " ">>, ShortComment}

\* the input between the cursor before the step and the lookahead after it
Gap ==
    SubSeq(input_template, tokenizer.cursor + 1,
           tokenizer'.cursor - Len(tokenizer'.next_token.value))

\* the lookahead after the step is the token that follows in the input: it ends at the new
\* cursor, only discarded text lies between the old cursor and it, and there is no
\* lookahead only when the input is used up
LookaheadMoved ==
    IF tokenizer'.next_token = NoToken
    THEN /\ tokenizer'.cursor = Len(input_template)
         /\ SubSeq(input_template, tokenizer.cursor + 1, Len(input_template)) \in DiscardedTexts
    ELSE /\ Len(tokenizer'.next_token.value) >= 1
         /\ tokenizer'.cursor - Len(tokenizer'.next_token.value) >= tokenizer.cursor
         /\ SubSeq(input_template, tokenizer'.cursor - Len(tokenizer'.next_token.value) + 1,
                   tokenizer'.cursor) = tokenizer'.next_token.value
         /\ Gap \in DiscardedTexts

\* the step returned the lookahead and moved it
LookaheadReturned ==
    /\ returned'.thrown = NoError
    /\ returned'.token = tokenizer.next_token
    /\ LookaheadMoved

\* the step threw this error and left the lookahead, the cursor and the line as they were
FailedUnchanged(what, value) ==
    /\ returned'.thrown = NanoError(what, value, tokenizer.line)
    /\ returned'.token = NoToken
    /\ TokenizerUnchanged

\* next() returns the lookahead and changes nothing
PeekStep ==
    PeekCalled =>
        /\ returned'.thrown = NoError
        /\ returned'.token = tokenizer.next_token
        /\ tokenizer' = tokenizer

\* the token types of the two rule lists
TokenTypes ==
    ({expression_tokens[i].type : i \in DOMAIN expression_tokens}
        \cup {template_tokens[i].type : i \in DOMAIN template_tokens}) \ {"null"}

\* the two failures of advance(expected) the type test makes
AdvanceMismatchStep(expected) ==
    /\ tokenizer.next_token # NoToken /\ tokenizer.next_token.type # expected =>
          FailedUnchanged("Unexpected token", tokenizer.next_token.value)
    /\ tokenizer.next_token = NoToken => FailedUnchanged("Unexpected end of input", <<>>)

\* C29 as stated: advance(expected) returns the lookahead and moves it whenever its type is
\* expected, throws 'Unexpected token' when the type differs and 'Unexpected end of input'
\* when there is no lookahead, leaving lookahead, cursor and line unchanged in both; next()
\* returns the lookahead and changes nothing
C29_AdvanceReturnsOnEqualType ==
    [][/\ PeekStep
       /\ \A expected \in ExpectedTypes \cup TokenTypes :
            AdvanceCalled(expected) =>
                /\ AdvanceMismatchStep(expected)
                /\ tokenizer.next_token # NoToken /\ tokenizer.next_token.type = expected =>
                      LookaheadReturned]_vars

\* the white space the input holds at the cursor
SkippedSpace ==
    SubSeq(input_template, tokenizer.cursor + 1,
           tokenizer.cursor + RunLength(Slice(input_template, tokenizer.cursor), 1, {" ", "\n"}))

\* the input after the lookahead goes on, after white space, with a character that no rule
\* of expression_tokens matches
NextUnmatched ==
    /\ tokenizer.token_spec = expression_tokens
    /\ tokenizer.cursor + Len(SkippedSpace) < Len(input_template)
    /\ input_template[tokenizer.cursor + Len(SkippedSpace) + 1] = "@"

\* advance() threw the error of that character: the lookahead is as it was, the cursor and
\* the line have moved over the white space before the character
UnmatchedThrown ==
    /\ returned'.thrown =
          NanoError("Unexpected token", <<"@">>, tokenizer.line + CountIn(SkippedSpace, {"\n"}))
    /\ returned'.token = NoToken
    /\ tokenizer'.next_token = tokenizer.next_token
    /\ tokenizer'.cursor = tokenizer.cursor + Len(SkippedSpace)
    /\ tokenizer'.line = tokenizer.line + CountIn(SkippedSpace, {"\n"})

\* C29 amended: advance(expected) returns the lookahead and moves it when its type is
\* expected and the input after it can be read; when no rule matches that input it throws
\* 'Unexpected token' for the character there and keeps the lookahead, with the cursor and
\* the line moved over the white space before the character. When the type differs it
\* throws 'Unexpected token', without a lookahead 'Unexpected end of input', and lookahead,
\* cursor and line are unchanged in both; next() returns the lookahead and changes nothing
C29_AdvanceReturnsOrInputUnread ==
    [][/\ PeekStep
       /\ \A expected \in ExpectedTypes \cup TokenTypes :
            AdvanceCalled(expected) =>
                /\ AdvanceMismatchStep(expected)
                /\ tokenizer.next_token # NoToken /\ tokenizer.next_token.type = expected =>
                      IF NextUnmatched THEN UnmatchedThrown ELSE LookaheadReturned]_vars

\* advance('IDENTIFIER') on a @ has thrown for the @ and a is still the lookahead; a call
\* with another type has failed too, and the lookahead is there after next()
C29_AdvanceThrewForNextCharacter ==
    /\ input_template = <<"a", "\n", " ", "@", "b">>
    /\ returned = [call |-> "advance", expected |-> "IDENTIFIER", token |-> NoToken,
                   thrown |-> NanoError("Unexpected token", <<"@">>, 2)]
    /\ tokenizer.next_token = Token("IDENTIFIER", <<"a">>)
    /\ tokenizer.cursor = 3

\* no rule of a token list matches the empty string where input remains: at every position
\* of the template each rule either fails or matches at least one character
MatchConsumes ==
    \A c \in 0..(Len(input_template) - 1) :
        /\ \A i \in DOMAIN template_tokens :
              return_token_match(template_tokens[i].regexp, Slice(input_template, c)) # 0
        /\ \A i \in DOMAIN expression_tokens :
              return_token_match(expression_tokens[i].regexp, Slice(input_template, c)) # 0

\* what is left to read: the input after the cursor, and the lookahead
Unread(tk) == Len(tk.input_template) - tk.cursor + (IF tk.next_token = NoToken THEN 0 ELSE 1)

\* a turn of the loop of parse() leaves less to read or throws, the cursor never goes back,
\* and the loop is left only at the end of the input
TurnConsumes ==
    pc = "parsing" =>
        /\ pc' = "parsing" => Unread(tokenizer') < Unread(tokenizer)
        /\ tokenizer'.cursor >= tokenizer.cursor
        /\ pc' = "parse_failed" => error' # NoError
        /\ pc' = "parsed" => tokenizer.cursor = Len(input_template) /\ error' = NoError

\* parse() has ended as the recursive definition of parse() ends: with the tree or the error
ParseEnded ==
    /\ pc \in {"parsed", "parse_failed"}
    /\ pc = "parsed" => parse(input_template) = [error |-> NoError, node |-> parsed]
    /\ pc = "parse_failed" => parse(input_template) = [error |-> error, node |-> Undefined]
    /\ pc = "parse_failed" => error # NoError

\* C30: parse() ends on every template: no rule matches the empty string where input
\* remains, every turn of the loop of parse() reads on (less is left to read) or throws,
\* and a call of parse() leads to its end, with the tree or with an error
C30_ParseTerminates ==
    /\ []MatchConsumes
    /\ [][TurnConsumes]_vars
    /\ (pc = "parsing") ~> ParseEnded

C30_ParsedAfterFiveTurns ==
    /\ pc = "parsed"
    /\ input_template =
          LongTemplate(ForTag(<<"v">>, <<"x", "s">>) \o <<"\n">> \o TagOf(<<"v">>) \o EndForTag,
                       IfTag(<<"a">>) \o <<"\n", "A">> \o ElseTag \o <<"B">> \o EndIfTag)
    /\ Len(parsed.nodes) = 5

=============================================================================
